---- MODULE Spec2Model ----
(***************************************************************************)
(* Model of the CSF-Downloader depot download engine.                      *)
(*                                                                         *)
(*  - reboot_downloader.py: signal_handler, main, depotdownloadermod_add,  *)
(*    run_steamctl_download (one OS thread, the asyncio loop runs main()   *)
(*    and main() calls cmd_depot_download synchronously).                  *)
(*  - steamctl/commands/depot/gcmds.py: cmd_depot_download with its        *)
(*    nested cancel_download and check_cancellation, a gevent Pool(6) of   *)
(*    download_to greenlets and one monitor greenlet.                      *)
(*                                                                         *)
(*  - steamctl/commands/clients.py, steamctl/utils/storage.py: one call    *)
(*    of CTLDepotFile.download_to on its own, its target path (SpecPath)   *)
(*    and its reconstruction of the file from the chunk list (SpecFile).   *)
(*  - steamctl/utils/tqdm.py: one progress bar on its own (SpecBar).       *)
(*  - gcmds.py: one ManifestFileIndex on its own (SpecIndex).              *)
(*  - clients.py: CachingCDNClient on its own, its content-server cache    *)
(*    (SpecServers), its depot keys (SpecKeys), its manifests              *)
(*    (SpecManifest).                                                      *)
(*  - reboot_downloader.py: get_data_local and what main() does with its   *)
(*    result, on their own (SpecDescriptor).                               *)
(*  - gcmds.py, clients.py: the files the greenlets of one                 *)
(*    cmd_depot_download hold open (SpecWriters).                          *)
(*                                                                         *)
(* gevent is cooperative: exactly one greenlet holds the CPU (cur).  The   *)
(* main greenlet gives it up only where it blocks (Pool.spawn on a full    *)
(* pool, Pool.join on a non-empty pool); the hub then runs whatever is     *)
(* ready: a greenlet start, a finished chunk fetch, a scheduled kill, the  *)
(* monitor's timer, or the wake-up of the main greenlet.  SIGINT is        *)
(* asynchronous: Python runs signal_handler between any two bytecodes of   *)
(* whichever greenlet is running, so SignalHandler interleaves everywhere. *)
(***************************************************************************)
EXTENDS Integers, Sequences, FiniteSets, Bags

\* ------------------------------------------------------------------ bounds
\* most file entries of one manifest
MaxFiles == 7
\* chunks of every file entry
ChunksPerFile == 2
\* most SIGINTs delivered in one run
MaxInterrupts == 2
\* most manifest files get_data_local collects (runs with several are small)
MaxManifests == 2
\* most file entries of a manifest in a run with several manifests
MaxFilesMulti == 1
\* bytes of every chunk (cb_original)
ChunkBytes == 2

\* --------------------------------------------------------- program constants
\* tasks = GPool(6)
PoolSize == 6

VARIABLES
    pc,             \* control point of the main thread
    cur,            \* "main" or "hub": the greenlet holding the CPU
    is_canceling,   \* reboot_downloader.is_canceling
    interrupts,     \* SIGINTs delivered so far
    exited,         \* the process has ended
    exit_status,    \* the status it ended with (read once exited)
    printed,        \* user-visible messages printed so far
    temp_cleaned,   \* cleanup_temp_dir() has run
    manifestFiles,  \* what get_data_local collected: a sequence of manifests
    midx,           \* depotdownloadermod_add: index of the manifest in hand
    success,        \* depotdownloadermod_add: success
    rsd_ret,        \* run_steamctl_download: value returned to the caller
    \* cmd_depot_download
    should_cancel,  \* should_cancel[0]
    global_tasks,   \* gcmds.global_tasks: "None" or "pool"
    cancel_monitor, \* the local cancel_monitor and the state of its greenlet
    tasks,          \* the greenlets spawned into the pool: a bag of their states
    mi,             \* index into manifests (line 254)
    ei,             \* index into the manifest's entries (line 258)
    total_files,    \* line 183
    pbar,           \* 'Data' bar: [on, n, cancelled]; on = FALSE is pbar = None
    pbar2,          \* 'Files' bar: [on, n, cancelled]
    pending,        \* what the try block left for finally: fallthrough / return 1
    cdd_ret,        \* "none", "0", "1" or the exception that escaped
    \* CTLDepotFile.download_to, one call on its own: the path
    filename,       \* self.filename, a string as the sequence of its characters
    no_make_dirs,   \* the argument no_make_dirs
    relpath,        \* the local relpath
    filepath,       \* the local filepath
    ppc,            \* control point of the path computation
    \* CTLDepotFile.download_to, one call on its own: the file
    chunks,         \* self.chunks: a sequence of [offset, cb_original, sha]
    size,           \* self.size
    verify,         \* the argument verify, as line 66 leaves it
    disk,           \* the file at filepath: [exists, data]
    disk0,          \* the file as the call found it
    fp,             \* fp.tell(): the cursor of the open file
    ci,             \* index of the chunk in hand (line 79)
    ncalls,         \* get_chunk calls made so far
    dpc,            \* control point of the reconstruction
    \* utils/tqdm.py: one progress bar on its own
    pb,             \* the bar object: [kind, n, _cancelled, _running, disable, ...]
    stdout,         \* what the latest call on the bar wrote to the terminal
    refresher,      \* the greenlet running pb.gevent_refresh_loop
    \* gcmds.py: one ManifestFileIndex on its own
    ix_manifests,   \* self.manifests: a sequence of manifests, each a set of paths
    path_cache,     \* self._path_cache: a function from the paths it holds
    scans,          \* manifest.iter_files calls made so far
    ix_call,        \* the latest call: <<method, path>>
    ix_ret,         \* what it returned
    \* clients.py: CachingCDNClient.fetch_content_servers on its own
    cs_file,        \* ~/.steamctl/cs_servers.json as read_json gives it
    clock,          \* time(), in seconds
    servers,        \* self.servers, the list of the servers it holds
    cs_fetches,     \* calls of CDNClient.fetch_content_servers so far
    cs_calls,       \* calls of fetch_content_servers so far
    cs_seen,        \* the latest call: the data it read and the time it read
    \* clients.py: the depot keys of one CachingCDNClient on their own
    custom_depot_keys_file, \* self.custom_depot_keys_file: a path was given
    custom_disk,    \* the file at that path: [st, keys]
    default_disk,   \* ~/.steamctl/depot_keys.json: [st, keys]
    _depot_keys,    \* self._depot_keys: [set, keys]; set = FALSE is None
    key_call,       \* the latest call on the client
    key_ret,        \* what it returned: [keys, raised]
    key_loads,      \* loads of the backing file by the property depot_keys
    \* clients.py: CachingCDNClient.get_manifest for one key on its own
    mf_mem,         \* self.manifests[key], None when the key is not in it
    mf_disk,        \* the cache file manifests/<key>: [st, manifest]
    mf_haskey,      \* depot_id in self.depot_keys
    mf_fetches,     \* calls of CDNClient.get_manifest so far
    mf_reads,       \* reads of the cache file so far
    mf_calls,       \* calls of get_manifest and get_cached_manifest so far
    mf_call,        \* the latest call
    mf_ret,         \* what it returned
    \* ---- get_data_local and its caller studied on their own (SpecDescriptor)
    lua_file,       \* the text of <app_id>.lua, None when there is no such file
    st_file,        \* the bytes of <app_id>.st, None when there is no such file
    manifest_paths, \* the <<depot, manifest>> names whose .manifest file exists
    directives,     \* the directives the descriptor was written from
    container,      \* how the descriptor was written: [kind, loose, raw]
    depot_keys_json,    \* what depot_keys.json holds, None before it is written
    collected_depots,   \* what get_data_local returned
    gdl_err,        \* the exception get_data_local raised, "" for none
    gdl_pc,         \* where main() is
    \* ---- the target files of one cmd_depot_download (SpecWriters)
    wr_manifests,   \* the manifests: each the filenames of its file entries
    wr_no_dirs,     \* args.no_directories
    wr_st,          \* per entry: "unspawned", "pending", "open" or "done"
    wr_pc           \* where cmd_depot_download is: "loop", "join", "done"

\* download_to's path computation and its reconstruction loop
pathVars == <<filename, no_make_dirs, relpath, filepath, ppc>>
dlVars == <<chunks, size, verify, disk, disk0, fp, ci, ncalls, dpc>>

\* the progress bar studied on its own
barVars == <<pb, stdout, refresher>>

\* the ManifestFileIndex studied on its own
ixVars == <<ix_manifests, path_cache, scans, ix_call, ix_ret>>

\* the content-server cache studied on its own
csVars == <<cs_file, clock, servers, cs_fetches, cs_calls, cs_seen>>

\* the depot keys studied on their own
keyVars == <<custom_depot_keys_file, custom_disk, default_disk, _depot_keys,
             key_call, key_ret, key_loads>>

\* the manifest cache studied on its own
mfVars == <<mf_mem, mf_disk, mf_haskey, mf_fetches, mf_reads, mf_calls, mf_call,
            mf_ret>>

\* get_data_local studied on its own
gdlVars == <<lua_file, st_file, manifest_paths, directives, container,
             depot_keys_json, collected_depots, gdl_err, gdl_pc>>

\* the target files of the greenlets studied on their own
wrVars == <<wr_manifests, wr_no_dirs, wr_st, wr_pc>>

\* the library objects studied on their own
libVars == <<barVars, ixVars, csVars, keyVars, mfVars, gdlVars, wrVars>>

\* what a run of the downloader never writes: the manifests collected, and
\* the state of the single calls and objects studied on their own
fixedVars == <<manifestFiles, pathVars, dlVars, libVars>>

vars == <<pc, cur, is_canceling, interrupts, exited, exit_status, printed, temp_cleaned,
          manifestFiles, midx, success, rsd_ret, should_cancel, global_tasks,
          cancel_monitor, tasks, mi, ei, total_files, pbar, pbar2, pending, cdd_ret,
          pathVars, dlVars, libVars>>

\* the state of main(), depotdownloadermod_add and run_steamctl_download
outerVars == <<fixedVars, midx, success, rsd_ret, temp_cleaned>>
\* the locals of cmd_depot_download that only its own steps write
loopVars == <<mi, ei, total_files, pending, cdd_ret>>

\* ------------------------------------------------------------------ inputs
FileEntry == [is_file |-> TRUE, nchunks |-> ChunksPerFile]
DirEntry == [is_file |-> FALSE, nchunks |-> 0]

\* a manifest of n file entries, with a directory placeholder as its second
\* entry (its first when n = 0) when withDir
ManifestOf(n, withDir) ==
    LET files == [i \in 1..n |-> FileEntry]
    IN  IF ~withDir THEN files
        ELSE IF n = 0 THEN <<DirEntry>>
        ELSE <<FileEntry, DirEntry>> \o [i \in 1..(n - 1) |-> FileEntry]

Manifests(maxn) == {ManifestOf(n, d) : n \in 0..maxn, d \in BOOLEAN}

\* run_steamctl_download hands cmd_depot_download exactly one manifest file
\* (args.file = [[open(manifest_file)]]), once per collected manifest
Inputs ==
    {<<>>}
    \cup {<<m>> : m \in Manifests(MaxFiles)}
    \cup UNION {[1..k -> Manifests(MaxFilesMulti)] : k \in 2..MaxManifests}

\* ------------------------------------------------------------------- state
\* pbar = pbar2 = None (line 150)
NoBar == [on |-> FALSE, n |-> 0, cancelled |-> FALSE]
\* tqdm(desc=..., total=...) (lines 200-217)
NewBar == [on |-> TRUE, n |-> 0, cancelled |-> FALSE]

\* the process starts main() with ms what get_data_local will collect
RunStart(ms) ==
    /\ pc = "main_prep"
    /\ cur = "main"
    /\ is_canceling = FALSE
    /\ interrupts = 0
    /\ exited = FALSE
    /\ exit_status = 0
    /\ printed = {}
    /\ temp_cleaned = FALSE
    /\ manifestFiles = ms
    /\ midx = 0
    /\ success = TRUE
    /\ rsd_ret = "none"
    /\ should_cancel = FALSE
    /\ global_tasks = "None"
    /\ cancel_monitor = "unbound"
    /\ tasks = EmptyBag
    /\ mi = 0
    /\ ei = 0
    /\ total_files = 0
    /\ pbar = NoBar
    /\ pbar2 = NoBar
    /\ pending = "none"
    /\ cdd_ret = "none"

\* no call of download_to is under study
PathIdle ==
    /\ filename = <<>>
    /\ no_make_dirs = FALSE
    /\ relpath = <<>>
    /\ filepath = <<>>
    /\ ppc = "idle"

NoFile == [exists |-> FALSE, data |-> <<>>]

DlIdle ==
    /\ chunks = <<>>
    /\ size = 0
    /\ verify = FALSE
    /\ disk = NoFile
    /\ disk0 = NoFile
    /\ fp = 0
    /\ ci = 0
    /\ ncalls = 0
    /\ dpc = "idle"

\* no progress bar is under study
BarIdle ==
    /\ pb = "none"
    /\ stdout = <<>>
    /\ refresher = "none"

\* no ManifestFileIndex is under study
IxIdle ==
    /\ ix_manifests = <<>>
    /\ path_cache = <<>>
    /\ scans = 0
    /\ ix_call = <<>>
    /\ ix_ret = <<>>

\* no content-server list is under study
CsIdle ==
    /\ cs_file = <<>>
    /\ clock = 0
    /\ servers = <<>>
    /\ cs_fetches = 0
    /\ cs_calls = 0
    /\ cs_seen = <<>>

\* no depot-key store is under study
KeyIdle ==
    /\ custom_depot_keys_file = FALSE
    /\ custom_disk = <<>>
    /\ default_disk = <<>>
    /\ _depot_keys = <<>>
    /\ key_call = ""
    /\ key_ret = <<>>
    /\ key_loads = 0

\* no manifest cache is under study
MfIdle ==
    /\ mf_mem = <<>>
    /\ mf_disk = <<>>
    /\ mf_haskey = FALSE
    /\ mf_fetches = 0
    /\ mf_reads = 0
    /\ mf_calls = 0
    /\ mf_call = ""
    /\ mf_ret = <<>>

\* no descriptor is under study
GdlIdle ==
    /\ lua_file = <<>>
    /\ st_file = <<>>
    /\ manifest_paths = {}
    /\ directives = <<>>
    /\ container = <<>>
    /\ depot_keys_json = <<>>
    /\ collected_depots = <<>>
    /\ gdl_err = ""
    /\ gdl_pc = ""

\* no set of target files is under study
WrIdle ==
    /\ wr_manifests = <<>>
    /\ wr_no_dirs = FALSE
    /\ wr_st = <<>>
    /\ wr_pc = ""

LibIdle ==
    /\ BarIdle
    /\ IxIdle
    /\ CsIdle
    /\ KeyIdle
    /\ MfIdle
    /\ GdlIdle
    /\ WrIdle

Init ==
    /\ \E ms \in Inputs : RunStart(ms)
    /\ PathIdle
    /\ DlIdle
    /\ LibIdle

Alive == ~exited

\* The file entries of a run are alike, so greenlets in the same state are
\* interchangeable: tasks is the bag of the states [st, chunk, n, dying] of the
\* greenlets spawned by this call.  st is "pending" (spawned, not started),
\* "running" (suspended in get_chunk for chunk number chunk), "done" or
\* "killed"; dying says a kill is scheduled and not yet delivered.
RECURSIVE SumOver(_, _)
SumOver(S, b) ==
    IF S = {} THEN 0
    ELSE LET x == CHOOSE y \in S : TRUE IN b[x] + SumOver(S \ {x}, b)

\* the greenlets the pool still holds: spawned and neither finished nor killed
InPool(ts) == {t \in DOMAIN ts : t.st \in {"pending", "running"}}
PoolCount == SumOver(InPool(tasks), tasks)

\* `if global_tasks:` -- a gevent Group is falsy while it holds no greenlet
PoolTruthy == global_tasks = "pool" /\ PoolCount > 0

\* Pool.kill(block=False): every greenlet of the pool gets a kill scheduled; one
\* not yet started never starts, a started one is thrown GreenletExit at its
\* suspension point when the hub next runs
KillOne(t) == IF t.st \in {"pending", "running"} THEN [t EXCEPT !.dying = TRUE] ELSE t
KillPool(ts) ==
    [k \in {KillOne(x) : x \in DOMAIN ts} |->
        SumOver({x \in DOMAIN ts : KillOne(x) = k}, ts)]

\* the manifests cmd_depot_download was called with (one file per call)
manifests == <<manifestFiles[midx]>>

\* `if pbar: pbar.cancel()` -- fake_tqdm.cancel sets _cancelled (and disable)
Cancelled(bar) == IF bar.on THEN [bar EXCEPT !.cancelled = TRUE] ELSE bar

\* fake_tqdm.update(1) on the 'Files' bar
Update1(bar) == IF bar.cancelled THEN bar ELSE [bar EXCEPT !.n = @ + 1]

\* `if pbar: pbar.update(n)` on the 'Data' bar
Update(bar, k) ==
    IF bar.on /\ ~bar.cancelled THEN [bar EXCEPT !.n = @ + k] ELSE bar

\* a message reaches the terminal
Emit(msg) == printed' = printed \cup {msg}

\* a handler without the graceful stage: the first SIGINT ends the process
SignalHandler_ExitAtOnce ==
    /\ ~exited
    /\ interrupts < MaxInterrupts
    /\ interrupts' = interrupts + 1
    /\ printed' = printed \cup {"Forcing immediate exit."}
    /\ exited' = TRUE
    /\ exit_status' = 1
    /\ UNCHANGED <<pc, cur, is_canceling, tasks, fixedVars, midx, success,
                   rsd_ret, temp_cleaned, should_cancel, global_tasks,
                   cancel_monitor, mi, ei, total_files, pending, cdd_ret,
                   pbar, pbar2>>

\* ------------------------------------------------ reboot_downloader.py
\* signal_handler(sig, frame): SIGINT, at any point of the run
SignalHandler ==
    /\ Alive
    /\ interrupts < MaxInterrupts
    /\ interrupts' = interrupts + 1
    /\ IF ~is_canceling
       THEN /\ is_canceling' = TRUE
            \* gcmds.global_tasks.kill(block=False); the asyncio task running is
            \* main(), not depotdownloadermod_add, so nothing is cancelled there
            /\ tasks' = IF PoolTruthy THEN KillPool(tasks) ELSE tasks
            /\ UNCHANGED <<exited, exit_status, printed>>
       ELSE /\ Emit("Forcing immediate exit.")
            \* os._exit(1)
            /\ exited' = TRUE
            /\ exit_status' = 1
            /\ UNCHANGED <<is_canceling, tasks>>
    /\ UNCHANGED <<pc, cur, outerVars, should_cancel, global_tasks,
                   cancel_monitor, loopVars, pbar, pbar2>>

\* the main thread runs main() and what it calls
MainRuns(at) == Alive /\ cur = "main" /\ pc = at

\* the variables of cmd_depot_download
cddVars == <<should_cancel, global_tasks, cancel_monitor, tasks, loopVars, pbar, pbar2>>

\* main(): print_welcome_screen, manifests = await get_data_local(app_id)
MainPrep ==
    /\ MainRuns("main_prep")
    /\ pc' = "main_check"
    /\ UNCHANGED <<cur, is_canceling, interrupts, exited, exit_status, printed,
                   outerVars, cddVars>>

\* main() lines 391-398 and 413-414
MainCheck ==
    /\ MainRuns("main_check")
    /\ IF is_canceling
       THEN /\ Emit("Download canceled during manifest preparation.")
            /\ pc' = "main_finally"
            /\ UNCHANGED <<midx, success>>
       ELSE IF manifestFiles = <<>>
       THEN /\ Emit("No manifest files found")
            /\ pc' = "main_finally"
            /\ UNCHANGED <<midx, success>>
       ELSE /\ pc' = "add_loop"
            /\ midx' = 1
            /\ success' = TRUE
            /\ UNCHANGED printed
    /\ UNCHANGED <<cur, is_canceling, interrupts, exited, exit_status,
                   fixedVars, rsd_ret, temp_cleaned, cddVars>>

\* a loop that does not read the flag before it handles a manifest
AddLoop_NoCheck ==
    /\ MainRuns("add_loop")
    /\ IF midx > Len(manifestFiles)
       THEN pc' = "main_after" /\ UNCHANGED success
       ELSE pc' = "rsd_enter" /\ UNCHANGED success
    /\ UNCHANGED <<cur, is_canceling, interrupts, exited, exit_status, printed,
                   fixedVars, midx, rsd_ret, temp_cleaned, cddVars>>

\* depotdownloadermod_add: `for manifest in manifests: if is_canceling: return False`
AddLoop ==
    /\ MainRuns("add_loop")
    /\ IF midx > Len(manifestFiles)
       THEN pc' = "main_after" /\ UNCHANGED success
       ELSE IF is_canceling
       THEN pc' = "main_after" /\ success' = FALSE
       ELSE pc' = "rsd_enter" /\ UNCHANGED success
    /\ UNCHANGED <<cur, is_canceling, interrupts, exited, exit_status, printed,
                   fixedVars, midx, rsd_ret, temp_cleaned, cddVars>>

\* run_steamctl_download lines 282-316.  With is_canceling set at line 284 the
\* function returns before `args` is bound, and its finally clause reads args:
\* UnboundLocalError leaves the function and depotdownloadermod_add's
\* `except Exception` prints it and returns False.
RsdEnter ==
    /\ MainRuns("rsd_enter")
    /\ IF is_canceling
       THEN /\ Emit("Error occurred")
            /\ success' = FALSE
            /\ rsd_ret' = "UnboundLocalError"
            /\ pc' = "main_after"
       ELSE /\ pc' = "cdd_start"
            /\ rsd_ret' = "none"
            /\ UNCHANGED <<printed, success>>
    /\ UNCHANGED <<cur, is_canceling, interrupts, exited, exit_status,
                   fixedVars, midx, temp_cleaned, cddVars>>

\* ------------------------------------------- gcmds.py: cmd_depot_download
\* a count that takes the directory placeholders for files
CountFiles_WithDirs(ms) ==
    LET RECURSIVE cnt(_)
        cnt(m) == IF m > Len(ms) THEN 0 ELSE Len(ms[m]) + cnt(m + 1)
    IN  cnt(1)

\* the non-directory entries of all manifests (lines 186-193)
CountFiles(ms) ==
    LET RECURSIVE cnt(_, _)
        cnt(m, e) ==
            IF m > Len(ms) THEN 0
            ELSE IF e > Len(ms[m]) THEN cnt(m + 1, 1)
            ELSE (IF ms[m][e].is_file THEN 1 ELSE 0) + cnt(m, e + 1)
    IN  cnt(1, 1)

\* total_size (lines 183-193): depotfile.size of the non-directory entries; a
\* file's size is the sum of its chunks' cb_original
TotalSize(ms) ==
    LET RECURSIVE cnt(_, _)
        cnt(m, e) ==
            IF m > Len(ms) THEN 0
            ELSE IF e > Len(ms[m]) THEN cnt(m + 1, 1)
            ELSE (IF ms[m][e].is_file THEN ms[m][e].nchunks * ChunkBytes ELSE 0)
                 + cnt(m, e + 1)
    IN  cnt(1, 1)

outerUnchanged ==
    UNCHANGED <<is_canceling, interrupts, exited, exit_status, printed, outerVars>>

\* lines 149-196: the locals, init_clients, the counting phase.  No file found
\* raises SteamError, caught at line 282: `if pbar` is false, return 1 is left
\* pending and the finally clause runs.
CddStart ==
    /\ MainRuns("cdd_start")
    /\ pbar' = NoBar
    /\ pbar2' = NoBar
    /\ global_tasks' = "None"
    /\ should_cancel' = FALSE
    /\ cancel_monitor' = "unbound"
    /\ tasks' = EmptyBag
    /\ mi' = 0
    /\ ei' = 0
    /\ cdd_ret' = "none"
    /\ total_files' = CountFiles(manifests)
    /\ IF total_files' = 0
       THEN pending' = "return 1" /\ pc' = "cdd_finally"
       ELSE pending' = "none" /\ pc' = "cdd_setup"
    /\ UNCHANGED cur
    /\ outerUnchanged

\* lines 198-251: the bars when stderr is a terminal, the pool, the monitor
CddSetup ==
    /\ MainRuns("cdd_setup")
    /\ \E isatty \in BOOLEAN :
        /\ pbar' = IF isatty THEN NewBar ELSE NoBar
        /\ pbar2' = IF isatty THEN NewBar ELSE NoBar
    /\ global_tasks' = "pool"
    /\ cancel_monitor' = "pending"
    /\ mi' = 1
    /\ pc' = "cdd_manifest"
    /\ UNCHANGED <<cur, should_cancel, tasks, ei, total_files, pending, cdd_ret>>
    /\ outerUnchanged

\* lines 254-256: `for manifest in manifests: if should_cancel[0]: break`
CddManifest ==
    /\ MainRuns("cdd_manifest")
    /\ IF mi > Len(manifests) \/ should_cancel
       THEN pc' = "cdd_join" /\ UNCHANGED ei
       ELSE pc' = "cdd_file" /\ ei' = 1
    /\ UNCHANGED <<cur, should_cancel, global_tasks, cancel_monitor, tasks, mi,
                   total_files, pending, cdd_ret, pbar, pbar2>>
    /\ outerUnchanged

\* lines 258-263: `for depotfile in manifest`: break when should_cancel[0],
\* skip a directory
CddFile ==
    /\ MainRuns("cdd_file")
    /\ IF ei > Len(manifests[mi]) \/ should_cancel
       THEN pc' = "cdd_manifest" /\ mi' = mi + 1 /\ UNCHANGED ei
       ELSE IF ~manifests[mi][ei].is_file
       THEN pc' = "cdd_file" /\ ei' = ei + 1 /\ UNCHANGED mi
       ELSE pc' = "cdd_spawn" /\ UNCHANGED <<mi, ei>>
    /\ UNCHANGED <<cur, should_cancel, global_tasks, cancel_monitor, tasks,
                   total_files, pending, cdd_ret, pbar, pbar2>>
    /\ outerUnchanged

\* a pool that admits every greenlet
HasSlot_Unbounded == TRUE

\* Pool.spawn's admission: the pool's semaphore has a free slot
HasSlot == PoolCount < PoolSize

\* a spawn that submits the entry twice
Spawned_Twice(ts, entry) ==
    ts (+) [t \in {[st |-> "pending", chunk |-> 0, n |-> entry.nchunks,
                    dying |-> FALSE]} |-> 2]

\* the greenlet tasks.spawn(depotfile.download_to, ...) adds to the pool
Spawned(ts, entry) ==
    ts (+) SetToBag({[st |-> "pending", chunk |-> 0, n |-> entry.nchunks,
                      dying |-> FALSE]})

\* lines 265-269: tasks.spawn; on a full pool the main greenlet blocks in the
\* pool's semaphore and the hub runs
CddSpawn ==
    /\ MainRuns("cdd_spawn")
    /\ IF HasSlot
       THEN /\ tasks' = Spawned(tasks, manifests[mi][ei])
            /\ pc' = "cdd_update"
            /\ UNCHANGED cur
       ELSE /\ cur' = "hub"
            /\ UNCHANGED <<tasks, pc>>
    /\ UNCHANGED <<should_cancel, global_tasks, cancel_monitor, loopVars, pbar, pbar2>>
    /\ outerUnchanged

\* lines 270-271: `if pbar2 and not should_cancel[0]: pbar2.update(1)`
CddUpdate ==
    /\ MainRuns("cdd_update")
    /\ pbar2' = IF pbar2.on /\ ~should_cancel THEN Update1(pbar2) ELSE pbar2
    /\ ei' = ei + 1
    /\ pc' = "cdd_file"
    /\ UNCHANGED <<cur, should_cancel, global_tasks, cancel_monitor, tasks, mi,
                   total_files, pending, cdd_ret, pbar>>
    /\ outerUnchanged

\* a join that returns without waiting for the pool
CddJoin_NoWait ==
    /\ MainRuns("cdd_join")
    /\ pc' = "cdd_finally"
    /\ UNCHANGED cur
    /\ UNCHANGED <<cddVars>>
    /\ outerUnchanged

\* lines 274-275: `if not should_cancel[0]: tasks.join()`; join returns at once
\* on an empty pool and otherwise blocks the main greenlet
CddJoin ==
    /\ MainRuns("cdd_join")
    /\ IF should_cancel \/ PoolCount = 0
       THEN pc' = "cdd_finally" /\ UNCHANGED cur
       ELSE cur' = "hub" /\ UNCHANGED pc
    /\ UNCHANGED <<cddVars>>
    /\ outerUnchanged

\* `if cancel_monitor:` in the finally clause.  The name is bound at line 251
\* only; read before that it raises UnboundLocalError.  A greenlet is truthy
\* once started and until it is dead.
MonitorAfterFinally(m) ==
    IF m \in {"sleeping", "killing"} THEN "dying" ELSE m

\* the value handed back were cancel_monitor bound wherever the clause runs
ReturnValue_MonitorBound(mon, pend, sc) ==
    IF pend = "return 1" THEN "1"
    ELSE IF sc THEN "1" ELSE "0"

\* the value cmd_depot_download hands back once its finally clause has run
\* (lines 281, 285, 305); an exception raised in the clause replaces it
ReturnValue(mon, pend, sc) ==
    IF mon = "unbound" THEN "UnboundLocalError"
    ELSE IF pend = "return 1" THEN "1"
    ELSE IF sc THEN "1" ELSE "0"

\* lines 286-305: the finally clause and the return
CddFinally ==
    /\ MainRuns("cdd_finally")
    /\ tasks' = IF PoolTruthy THEN KillPool(tasks) ELSE tasks
    /\ cancel_monitor' = MonitorAfterFinally(cancel_monitor)
    /\ IF cancel_monitor = "unbound"
       THEN UNCHANGED <<pbar, pbar2>>
       ELSE pbar2' = Cancelled(pbar2) /\ pbar' = Cancelled(pbar)
    /\ cdd_ret' = ReturnValue(cancel_monitor, pending, should_cancel)
    /\ pc' = "rsd_return"
    /\ UNCHANGED <<cur, should_cancel, global_tasks, mi, ei, total_files, pending>>
    /\ outerUnchanged

\* ------------------------------------ reboot_downloader.py, after the call
\* run_steamctl_download lines 316-334: the result of cmd_depot_download
RsdReturn ==
    /\ MainRuns("rsd_return")
    /\ IF cdd_ret = "UnboundLocalError"
       THEN \* except Exception (line 327)
            /\ IF is_canceling THEN UNCHANGED printed
               ELSE Emit("Error running steamctl download")
            /\ rsd_ret' = "False"
            /\ UNCHANGED is_canceling
       ELSE IF cdd_ret = "1"
       THEN \* line 319: `if result == 1: is_canceling = True`
            /\ is_canceling' = TRUE
            /\ rsd_ret' = "False"
            /\ UNCHANGED printed
       ELSE /\ rsd_ret' = "True"
            /\ UNCHANGED <<is_canceling, printed>>
    /\ pc' = "add_after"
    /\ UNCHANGED <<cur, interrupts, exited, exit_status, fixedVars, midx,
                   success, temp_cleaned, cddVars>>

\* depotdownloadermod_add lines 358-363
AddAfter ==
    /\ MainRuns("add_after")
    /\ IF is_canceling
       THEN pc' = "main_after" /\ success' = FALSE /\ UNCHANGED midx
       ELSE /\ pc' = "add_loop"
            /\ midx' = midx + 1
            /\ success' = (success /\ rsd_ret = "True")
    /\ UNCHANGED <<cur, is_canceling, interrupts, exited, exit_status, printed,
                   fixedVars, rsd_ret, temp_cleaned, cddVars>>

\* main() lines 401-412
MainAfter ==
    /\ MainRuns("main_after")
    /\ IF is_canceling THEN Emit("Download canceled by user.")
       ELSE IF ~success THEN Emit("Failed to process manifests")
       ELSE Emit("Download completed successfully!")
    /\ pc' = "main_finally"
    /\ UNCHANGED <<cur, is_canceling, interrupts, exited, exit_status,
                   outerVars, cddVars>>

\* main() lines 427-433, then asyncio.run returns and the interpreter exits
MainFinally ==
    /\ MainRuns("main_finally")
    /\ temp_cleaned' = TRUE
    /\ IF is_canceling THEN Emit("Cleanup completed. Program exited safely.")
       ELSE UNCHANGED printed
    /\ exited' = TRUE
    /\ exit_status' = 0
    /\ pc' = "exit"
    /\ UNCHANGED <<cur, is_canceling, interrupts, fixedVars, midx, success,
                   rsd_ret, cddVars>>

\* ------------------------------------------------------- the gevent hub
\* the hub runs while the main greenlet is blocked
HubRuns == Alive /\ cur = "hub"

\* cancel_download() (lines 155-176) called from the monitor: the flag, the
\* bars, then `if global_tasks: global_tasks.kill(block=True)`, which blocks
\* the monitor until the killed greenlets are gone
CancelDownloadTasks(ts) == IF PoolTruthy THEN KillPool(ts) ELSE ts
CancelDownloadMonitor == IF PoolTruthy THEN "killing" ELSE "finished"

\* check_cancellation (lines 226-249): one pass of the monitor's loop, from its
\* start or from the end of gevent.sleep(0.1) to where it next blocks or ends.
\* It was spawned before any task, so the hub starts it first.
HubRunMonitor ==
    /\ HubRuns
    /\ cancel_monitor \in {"pending", "sleeping"}
    /\ IF should_cancel
       THEN /\ cancel_monitor' = "finished"
            /\ UNCHANGED <<should_cancel, tasks, pbar, pbar2, printed>>
       ELSE IF is_canceling
       THEN /\ pbar' = Cancelled(pbar)
            /\ pbar2' = Cancelled(pbar2)
            /\ Emit("Download cancellation requested. Cleaning up...")
            /\ should_cancel' = TRUE
            /\ tasks' = CancelDownloadTasks(tasks)
            /\ cancel_monitor' = CancelDownloadMonitor
       ELSE /\ cancel_monitor' = "sleeping"
            /\ UNCHANGED <<should_cancel, tasks, pbar, pbar2, printed>>
    /\ UNCHANGED <<pc, cur, is_canceling, interrupts, exited, exit_status,
                   outerVars, global_tasks, loopVars>>

\* Pool.kill(block=True) returns in the monitor once the pool is empty; the
\* monitor then leaves its loop (line 244)
HubMonitorKillDone ==
    /\ HubRuns
    /\ cancel_monitor = "killing"
    /\ PoolCount = 0
    /\ cancel_monitor' = "finished"
    /\ UNCHANGED <<pc, cur, tasks, should_cancel, global_tasks, loopVars, pbar, pbar2>>
    /\ outerUnchanged

\* download_to (clients.py lines 79-101) from chunk c on, up to the next
\* get_chunk call (the greenlet's only suspension point) or to its end: with
\* verify, chunks whose bytes on disk hash right are passed without a fetch
RunFrom(t, c) ==
    {[t EXCEPT !.st = "running", !.chunk = k] : k \in c..t.n}
    \cup {[t EXCEPT !.st = "done", !.chunk = 0]}

\* the chunks greenlet t has verified or written: all before the one it is
\* fetching, all of them once it is done
Processed(t) ==
    IF t.st = "done" THEN t.n
    ELSE IF t.chunk > 0 THEN t.chunk - 1
    ELSE 0

\* a download_to that reports only the chunk it wrote, not the chunks it found
\* right on disk on its way
Counted_WrittenOnly(bar, t, u) ==
    Update(bar, IF Processed(u) > Processed(t) THEN ChunkBytes ELSE 0)

\* lines 85-87 and 100-101: pbar.update(chunk.cb_original) for every chunk
\* the greenlet passed on its way from state t to state u
Counted(bar, t, u) == Update(bar, (Processed(u) - Processed(t)) * ChunkBytes)

\* greenlet t of the bag goes to state u
Moved(ts, t, u) == (ts (-) SetToBag({t})) (+) SetToBag({u})

\* a spawned greenlet starts, unless a kill was scheduled for it: download_to
\* runs to its first fetch
HubStartTask ==
    /\ HubRuns
    /\ cancel_monitor # "pending"
    /\ \E t \in DOMAIN tasks :
        /\ t.st = "pending"
        /\ ~t.dying
        /\ \E u \in RunFrom(t, 1) :
            /\ tasks' = Moved(tasks, t, u)
            /\ pbar' = Counted(pbar, t, u)
    /\ UNCHANGED <<pc, cur, should_cancel, global_tasks, cancel_monitor,
                   loopVars, pbar2>>
    /\ outerUnchanged

\* get_chunk returns in a greenlet: the chunk is written (lines 98-101) and
\* download_to goes on to its next fetch or to its end
HubFetchDone ==
    /\ HubRuns
    /\ cancel_monitor # "pending"
    /\ \E t \in DOMAIN tasks :
        /\ t.st = "running"
        /\ \E u \in RunFrom(t, t.chunk + 1) :
            /\ tasks' = Moved(tasks, t, u)
            /\ pbar' = Counted(pbar, t, u)
    /\ UNCHANGED <<pc, cur, should_cancel, global_tasks, cancel_monitor,
                   loopVars, pbar2>>
    /\ outerUnchanged

\* the hub runs the scheduled kills, one after the other: GreenletExit ends a
\* greenlet inside its get_chunk call, a greenlet not yet started is dropped
KilledOne(t) ==
    IF t.st \in {"pending", "running"} /\ t.dying
    THEN [t EXCEPT !.st = "killed"] ELSE t
Killed(ts) ==
    [k \in {KilledOne(x) : x \in DOMAIN ts} |->
        SumOver({x \in DOMAIN ts : KilledOne(x) = k}, ts)]

HubDeliverKills ==
    /\ HubRuns
    /\ cancel_monitor # "pending"
    /\ \E t \in InPool(tasks) : t.dying
    /\ tasks' = Killed(tasks)
    /\ UNCHANGED <<pc, cur, should_cancel, global_tasks, cancel_monitor,
                   loopVars, pbar, pbar2>>
    /\ outerUnchanged

\* the main greenlet wakes in Pool.spawn once a slot is free: the greenlet is
\* added and spawn returns
HubWakeSpawn ==
    /\ HubRuns
    /\ pc = "cdd_spawn"
    /\ HasSlot
    /\ tasks' = Spawned(tasks, manifests[mi][ei])
    /\ pc' = "cdd_update"
    /\ cur' = "main"
    /\ UNCHANGED <<should_cancel, global_tasks, cancel_monitor, loopVars, pbar, pbar2>>
    /\ outerUnchanged

\* the main greenlet wakes in Pool.join once the pool is empty
HubWakeJoin ==
    /\ HubRuns
    /\ pc = "cdd_join"
    /\ PoolCount = 0
    /\ pc' = "cdd_finally"
    /\ cur' = "main"
    /\ UNCHANGED cddVars
    /\ outerUnchanged

\* an exception in one greenlet that ends all greenlets of the pool
HubTaskRaise_EndsAll ==
    /\ HubRuns
    /\ cancel_monitor # "pending"
    /\ \E t \in InPool(tasks) :
        /\ t.st = "pending" => ~t.dying
        /\ tasks' = [k \in {[x EXCEPT !.st = IF x \in InPool(tasks) THEN "failed" ELSE @] :
                                x \in DOMAIN tasks} |->
                        SumOver({x \in DOMAIN tasks :
                                    [x EXCEPT !.st = IF x \in InPool(tasks) THEN "failed" ELSE @] = k},
                                tasks)]
    /\ UNCHANGED <<pc, cur, should_cancel, global_tasks, cancel_monitor,
                   loopVars, pbar, pbar2>>
    /\ outerUnchanged

\* an exception leaves download_to in a greenlet: truncate fails in one that
\* starts (clients.py lines 70-75), get_chunk raises in one that waits for a
\* chunk (lines 91-95).  gevent reports the exception and the greenlet is
\* over: the pool drops it like one that returned.
HubTaskRaise ==
    /\ HubRuns
    /\ cancel_monitor # "pending"
    /\ \E t \in InPool(tasks) :
        /\ t.st = "pending" => ~t.dying
        /\ tasks' = Moved(tasks, t, [t EXCEPT !.st = "failed"])
    /\ UNCHANGED <<pc, cur, should_cancel, global_tasks, cancel_monitor,
                   loopVars, pbar, pbar2>>
    /\ outerUnchanged

\* ------------------------------------------------------ the specification
MainStep ==
    \/ MainPrep \/ MainCheck \/ AddLoop \/ RsdEnter
    \/ CddStart \/ CddSetup \/ CddManifest \/ CddFile \/ CddSpawn \/ CddUpdate
    \/ CddJoin \/ CddFinally
    \/ RsdReturn \/ AddAfter \/ MainAfter \/ MainFinally

HubStep ==
    \/ HubStartTask
    \/ HubFetchDone
    \/ HubDeliverKills
    \/ HubMonitorKillDone
    \/ HubWakeSpawn
    \/ HubWakeJoin

Next == MainStep \/ HubStep \/ HubRunMonitor \/ SignalHandler

Spec == Init /\ [][Next]_vars

\* every step but SIGINT: the main thread runs on, a started fetch returns,
\* the hub runs what is ready, the monitor among it
Progress == MainStep \/ HubStep \/ HubRunMonitor

\* the run with every file task terminating: the main thread is never starved
\* and no fetch hangs for ever
FairSpec == Spec /\ WF_vars(Progress)

\* the run in which file tasks may fail and no cancellation is requested, on
\* one manifest of one file or of more files than the pool holds
ErrInit ==
    /\ \E n \in {1, MaxFiles} : RunStart(<<ManifestOf(n, FALSE)>>)
    /\ PathIdle
    /\ DlIdle
    /\ LibIdle

\* no SIGINT arrives in these runs, so no kill is ever scheduled
ErrProgress ==
    \/ MainStep
    \/ HubStartTask
    \/ HubFetchDone
    \/ HubWakeSpawn
    \/ HubWakeJoin
    \/ HubRunMonitor

ErrNext == ErrProgress \/ HubTaskRaise

SpecErrors == ErrInit /\ [][ErrNext]_vars

\* as in FairSpec: the main thread is never starved and no fetch hangs for
\* ever (it returns or it raises)
FairErrors == SpecErrors /\ WF_vars(ErrProgress)

\* -------------------------------------- download_to: the target path
\* Strings are sequences of one-character strings.  Entry paths are drawn
\* from the characters that matter to the path computation: a name character,
\* the dot, and the two separators.
Chars == {"a", ".", "/", "\\"}
Strings(n) == UNION {[1..k -> Chars] : k \in 0..n}

\* most characters of an entry path
MaxPathLen == 4

\* args.output = f"./{OUTPUT_FOLDER_NAME}", and the process's working directory
Target == <<".", "/", "d">>
Cwd == <<"/", "w">>

\* path.replace('\\', '/')
Replace(s) == [i \in DOMAIN s |-> IF s[i] = "\\" THEN "/" ELSE s[i]]

\* s.split('/')
RECURSIVE Split(_)
Split(s) ==
    IF \A i \in DOMAIN s : s[i] # "/" THEN <<s>>
    ELSE LET k == CHOOSE i \in DOMAIN s :
                      s[i] = "/" /\ \A j \in 1..(i - 1) : s[j] # "/"
         IN  <<SubSeq(s, 1, k - 1)>> \o Split(SubSeq(s, k + 1, Len(s)))

\* '/'.join(parts)
RECURSIVE Join(_)
Join(parts) ==
    IF parts = <<>> THEN <<>>
    ELSE IF Len(parts) = 1 THEN parts[1]
    ELSE parts[1] \o <<"/">> \o Join(Tail(parts))

\* s.lstrip('/')
RECURSIVE LStrip(_)
LStrip(s) == IF s # <<>> /\ s[1] = "/" THEN LStrip(Tail(s)) ELSE s

LeadingSlashes(s) == Len(s) - Len(LStrip(s))

\* the slashes a POSIX path keeps in front: none, one, or two when it began
\* with exactly two
KeptSlashes(s) ==
    LET n == LeadingSlashes(s)
    IN  IF n = 0 THEN <<>> ELSE IF n = 2 THEN <<"/", "/">> ELSE <<"/">>

IsDot(c) == Len(c) = 1 /\ c[1] = "."
IsDotDot(c) == Len(c) = 2 /\ c[1] = "." /\ c[2] = "."
NamedPart(c) == c # <<>> /\ ~IsDot(c)

\* Path(s).as_posix() on a POSIX system: empty and '.' components are dropped,
\* '..' components are kept, the empty path is '.'
AsPosix(s) ==
    LET root == KeptSlashes(s)
        parts == SelectSeq(Split(s), NamedPart)
    IN  IF root = <<>> /\ parts = <<>> THEN <<".">> ELSE root \o Join(parts)

\* storage.sanitizerelpath
sanitizerelpath(path) == LStrip(AsPosix(Replace(path)))

\* os.path.basename
basename(path) == LET parts == Split(path) IN parts[Len(parts)]

\* os.path.join(a, b)
PathJoin(a, b) ==
    IF b # <<>> /\ b[1] = "/" THEN b
    ELSE IF a = <<>> \/ a[Len(a)] = "/" THEN a \o b
    ELSE a \o <<"/">> \o b

\* os.path.normpath's loop over the components: '..' takes back the component
\* before it, and is dropped at the root
RECURSIVE Collapse(_, _, _)
Collapse(comps, acc, rooted) ==
    IF comps = <<>> THEN acc
    ELSE LET c == Head(comps)
             rest == Tail(comps)
         IN  IF ~NamedPart(c) THEN Collapse(rest, acc, rooted)
             ELSE IF \/ ~IsDotDot(c)
                     \/ (~rooted /\ acc = <<>>)
                     \/ (acc # <<>> /\ IsDotDot(acc[Len(acc)]))
                  THEN Collapse(rest, Append(acc, c), rooted)
             ELSE IF acc # <<>>
                  THEN Collapse(rest, SubSeq(acc, 1, Len(acc) - 1), rooted)
             ELSE Collapse(rest, acc, rooted)

\* os.path.normpath
normpath(path) ==
    LET root == KeptSlashes(path)
        res == root \o Join(Collapse(Split(path), <<>>, root # <<>>))
    IN  IF res = <<>> THEN <<".">> ELSE res

\* os.path.abspath
abspath(path) ==
    normpath(IF path # <<>> /\ path[1] = "/" THEN path ELSE PathJoin(Cwd, path))

\* every variable of the run of the downloader
runVars == <<pc, cur, is_canceling, interrupts, exited, exit_status, printed,
             temp_cleaned, manifestFiles, midx, success, rsd_ret, should_cancel,
             global_tasks, cancel_monitor, tasks, mi, ei, total_files, pbar,
             pbar2, pending, cdd_ret>>

\* line 52: relpath = sanitizerelpath(self.filename)
DlSanitize ==
    /\ ppc = "start"
    /\ relpath' = sanitizerelpath(filename)
    /\ ppc' = "sanitized"
    /\ UNCHANGED <<filename, no_make_dirs, filepath, runVars, dlVars, libVars>>

\* lines 54-59: basename when no_make_dirs, join with the target, abspath
DlTargetPath ==
    /\ ppc = "sanitized"
    /\ LET rel == IF no_make_dirs THEN basename(relpath) ELSE relpath
       IN  /\ relpath' = PathJoin(Target, rel)
           /\ filepath' = abspath(PathJoin(Target, rel))
    /\ ppc' = "done"
    /\ UNCHANGED <<filename, no_make_dirs, runVars, dlVars, libVars>>

PathInit ==
    /\ RunStart(<<>>)
    /\ DlIdle
    /\ LibIdle
    /\ filename \in Strings(MaxPathLen)
    /\ no_make_dirs \in BOOLEAN
    /\ relpath = <<>>
    /\ filepath = <<>>
    /\ ppc = "start"

PathNext == DlSanitize \/ DlTargetPath

\* download_to called on an entry of any path: its path computation
SpecPath == PathInit /\ [][PathNext]_vars

\* ------------------------------------ download_to: the reconstruction
\* the values of a byte; a file grown by truncate or by a write past its end
\* reads 0 where nothing was written
Bytes == {0, 1}
Zeros(n) == [i \in 1..n |-> 0]

\* most bytes of a file, on disk or in the manifest
MaxSize == 3

Contents(n) == UNION {[1..k -> Bytes] : k \in 0..n}

\* sha1_hash(data): a digest stands for the bytes it was taken of
sha1_hash(data) == <<"sha1", data>>

\* cdn_client.get_chunk(app_id, depot_id, sha): the bytes the digest names
get_chunk(sha) == sha[2]

\* the ways of cutting n bytes into chunks: the chunks' lengths, in file order
RECURSIVE Compositions(_)
Compositions(n) ==
    IF n = 0 THEN {<<>>}
    ELSE UNION {{<<k>> \o c : c \in Compositions(n - k)} : k \in 1..n}

RECURSIVE SumFirst(_, _)
SumFirst(lens, k) == IF k = 0 THEN 0 ELSE lens[k] + SumFirst(lens, k - 1)

\* the ChunkData of a file of the given content cut into the given lengths
ChunksOf(content, lens) ==
    [i \in DOMAIN lens |->
        LET off == SumFirst(lens, i - 1)
        IN  [offset |-> off,
             cb_original |-> lens[i],
             sha |-> sha1_hash(SubSeq(content, off + 1, off + lens[i]))]]

Orders(k) == {f \in [1..k -> 1..k] : \A i, j \in 1..k : f[i] = f[j] => i = j}

\* self.chunks is file_mapping.chunks as the manifest lists them: download_to
\* does not order them
ChunkLists(content) ==
    UNION {{[i \in DOMAIN lens |-> ChunksOf(content, lens)[f[i]]] : f \in Orders(Len(lens))}
           : lens \in Compositions(Len(content))}

\* fp.truncate(n)
Truncate(data, n) ==
    IF Len(data) >= n THEN SubSeq(data, 1, n) ELSE data \o Zeros(n - Len(data))

\* fp.read(n) with the cursor at pos
Read(data, pos, n) ==
    SubSeq(data, pos + 1, IF pos + n < Len(data) THEN pos + n ELSE Len(data))

\* fp.write(bytes) with the cursor at pos
Write(data, pos, bytes) ==
    LET base == IF Len(data) < pos THEN data \o Zeros(pos - Len(data)) ELSE data
    IN  SubSeq(base, 1, pos) \o bytes \o SubSeq(base, pos + Len(bytes) + 1, Len(base))

\* an open that leaves the file the length it has
DlOpen_NoTruncate ==
    /\ dpc = "start"
    /\ LET v == verify /\ disk.exists
           opened == IF v THEN disk.data ELSE <<>>
       IN  /\ verify' = v
           /\ disk' = [exists |-> TRUE, data |-> opened]
    /\ fp' = 0
    /\ ci' = 1
    /\ dpc' = "loop"
    /\ UNCHANGED <<chunks, size, disk0, ncalls, runVars, pathVars, libVars>>

\* lines 62-78: verify is dropped for a file that does not exist; the file is
\* opened ('wb' empties it), sized to self.size and the cursor put at 0
DlOpen ==
    /\ dpc = "start"
    /\ LET v == verify /\ disk.exists
           opened == IF v THEN disk.data ELSE <<>>
       IN  /\ verify' = v
           /\ disk' = [exists |-> TRUE, data |-> Truncate(opened, size)]
    /\ fp' = 0
    /\ ci' = 1
    /\ dpc' = "loop"
    /\ UNCHANGED <<chunks, size, disk0, ncalls, runVars, pathVars, libVars>>

\* a pass that fetches the chunk whatever the file holds
DlChunk_FetchesAll ==
    /\ dpc = "loop"
    /\ ci <= Len(chunks)
    /\ LET chunk == chunks[ci]
           at == IF verify THEN chunk.offset ELSE fp
           data == get_chunk(chunk.sha)
       IN  /\ disk' = [disk EXCEPT !.data = Write(@, at, data)]
           /\ fp' = at + Len(data)
           /\ ncalls' = ncalls + 1
    /\ ci' = ci + 1
    /\ UNCHANGED <<chunks, size, verify, disk0, dpc, runVars, pathVars, libVars>>

\* a pass that goes on to the next chunk with the fetched bytes not written
DlChunk_Unwritten ==
    /\ dpc = "loop"
    /\ ci <= Len(chunks)
    /\ LET chunk == chunks[ci]
           cur_data == Read(disk.data, fp, chunk.cb_original)
       IN  IF verify /\ sha1_hash(cur_data) = chunk.sha
           THEN /\ fp' = fp + Len(cur_data)
                /\ UNCHANGED <<disk, ncalls>>
           ELSE /\ fp' = (IF verify THEN chunk.offset ELSE fp) + chunk.cb_original
                /\ ncalls' = ncalls + 1
                /\ UNCHANGED disk
    /\ ci' = ci + 1
    /\ UNCHANGED <<chunks, size, verify, disk0, dpc, runVars, pathVars, libVars>>

\* lines 79-101, one pass of `for chunk in self.chunks`
DlChunk ==
    /\ dpc = "loop"
    /\ ci <= Len(chunks)
    /\ LET chunk == chunks[ci]
           cur_data == Read(disk.data, fp, chunk.cb_original)
       IN  IF verify /\ sha1_hash(cur_data) = chunk.sha
           THEN /\ fp' = fp + Len(cur_data)
                /\ UNCHANGED <<disk, ncalls>>
           ELSE LET at == IF verify THEN chunk.offset ELSE fp
                    data == get_chunk(chunk.sha)
                IN  /\ disk' = [disk EXCEPT !.data = Write(@, at, data)]
                    /\ fp' = at + Len(data)
                    /\ ncalls' = ncalls + 1
    /\ ci' = ci + 1
    /\ UNCHANGED <<chunks, size, verify, disk0, dpc, runVars, pathVars, libVars>>

\* the loop is over and the with block closes the file
DlClose ==
    /\ dpc = "loop"
    /\ ci > Len(chunks)
    /\ dpc' = "closed"
    /\ UNCHANGED <<chunks, size, verify, disk, disk0, fp, ci, ncalls, runVars, pathVars, libVars>>

FileInit ==
    /\ RunStart(<<>>)
    /\ PathIdle
    /\ LibIdle
    /\ \E content \in Contents(MaxSize) :
         /\ size = Len(content)
         /\ chunks \in ChunkLists(content)
    /\ verify \in BOOLEAN
    /\ disk \in {NoFile} \cup {[exists |-> TRUE, data |-> d] : d \in Contents(MaxSize)}
    /\ disk0 = disk
    /\ fp = 0
    /\ ci = 0
    /\ ncalls = 0
    /\ dpc = "start"

FileNext == DlOpen \/ DlChunk \/ DlClose

\* download_to called on an entry of any chunk list, over any file on disk
SpecFile == FileInit /\ [][FileNext]_vars

\* ---------------------------------------------------------------------------
\* utils/tqdm.py: the progress bar on its own.  The module defines the class
\* the downloader uses in one of two ways: without the tqdm package, the
\* class fake_tqdm(object) of lines 98-295 ("fallback"); with it, the class
\* fake_tqdm(_tqdm) of lines 332-365 ("wrapper"), which defines __init__,
\* cancel, gevent_refresh_loop and close and takes update, refresh and write
\* from the tqdm package.  One bar is alive, so _all_bars (or tqdm._instances)
\* holds it or is empty: the field listed.  A call returns the bar it leaves
\* and what it wrote to the terminal: "bar" a rendering of the bar, "msg" the
\* message of write, "clear" the erasure of the line, "reserve" the newlines.

MaxBarN == 3

Kinds == {"fallback", "wrapper"}

\* __init__ (lines 100-135; 333-342)
NewProgress(kind, disable) ==
    [b |-> [kind |-> kind, n |-> 0, _cancelled |-> FALSE, _running |-> FALSE,
            disable |-> disable, _is_closed |-> FALSE, listed |-> ~disable],
     out |-> IF disable THEN <<>>
             ELSE IF kind = "fallback" THEN <<"reserve">> ELSE <<"bar">>]

Quiet(b) == [b |-> b, out |-> <<>>]

\* _print_status, _redraw_all_bars, _direct_print (lines 213-231, 297-323)
PrintStatus(b) ==
    IF b._is_closed \/ b.disable \/ b._cancelled THEN <<>>
    ELSE IF b.listed THEN <<"bar">> ELSE <<>>

\* cancel (lines 142-155; 344-349): the wrapper's ends in self.close(), where
\* the package's close returns at once for a disabled bar
BarCancel(b) ==
    IF b.kind = "fallback"
    THEN IF ~b._cancelled
         THEN [b |-> [b EXCEPT !._cancelled = TRUE, !._running = FALSE,
                               !.disable = TRUE, !._is_closed = TRUE,
                               !.listed = FALSE],
               out |-> <<"clear">>]
         ELSE Quiet(b)
    ELSE Quiet([b EXCEPT !._cancelled = TRUE, !._running = FALSE, !.disable = TRUE])

\* update(n) (lines 234-251); due: enough progress or time for a rendering.
\* The wrapper's update is the package's: nothing for a disabled bar
BarUpdate(b, k, due) ==
    IF b.kind = "fallback"
    THEN IF b.disable \/ b._cancelled THEN Quiet(b)
         ELSE LET c == [b EXCEPT !.n = @ + k]
              IN  [b |-> c, out |-> IF due THEN PrintStatus(c) ELSE <<>>]
    ELSE IF b.disable THEN Quiet(b)
         ELSE [b |-> [b EXCEPT !.n = @ + k], out |-> IF due THEN <<"bar">> ELSE <<>>]

\* the rendering on demand: the fallback has _print_status only; the
\* wrapper's refresh is the package's, nothing for a disabled bar
BarRefresh(b) ==
    IF b.kind = "fallback" THEN [b |-> b, out |-> PrintStatus(b)]
    ELSE [b |-> b, out |-> IF b.disable THEN <<>> ELSE <<"bar">>]

\* write(s) (lines 253-271).  The wrapper's write is the package's class
\* method: it prints the message whatever the state of the bar it is called
\* on, and redraws the bars that are not disabled
BarWrite(b) ==
    IF b.kind = "fallback"
    THEN IF b._cancelled \/ b.disable THEN Quiet(b)
         ELSE IF ~b.listed THEN [b |-> b, out |-> <<"msg">>]
         ELSE [b |-> b, out |-> <<"msg">> \o PrintStatus(b)]
    ELSE [b |-> b,
          out |-> <<"msg">> \o (IF b.listed /\ ~b.disable THEN <<"bar">> ELSE <<>>)]

\* close (lines 273-284; 362-365): the package's close returns for a disabled
\* bar, else disables it, drops it from the instances and leaves its last
\* rendering
BarClose(b) ==
    IF b.kind = "fallback"
    THEN IF ~b._is_closed
         THEN [b |-> [b EXCEPT !._is_closed = TRUE, !._running = FALSE,
                               !.listed = FALSE],
               out |-> <<"clear">>]
         ELSE Quiet(b)
    ELSE IF b.disable THEN Quiet([b EXCEPT !._running = FALSE])
         ELSE [b |-> [b EXCEPT !._running = FALSE, !.disable = TRUE,
                               !.listed = FALSE],
               out |-> <<"bar">>]

\* gevent_refresh_loop (lines 286-295; 351-360) up to its `while`: whether it
\* goes on, and the bar it leaves
LoopEnters(b) ==
    IF b.kind = "fallback" THEN ~(b._running \/ b._cancelled)
    ELSE ~(b.disable \/ b._cancelled)

\* one test of the `while` and, when it passes, the body up to gevent.sleep
LoopGoesOn(b) == b._running /\ ~b._cancelled
LoopBody(b) ==
    IF b.kind = "fallback"
    THEN IF ~b._cancelled /\ ~b.disable THEN PrintStatus(b) ELSE <<>>
    ELSE BarRefresh(b).out

\* everything but the bar
barRest == <<runVars, pathVars, dlVars, ixVars, csVars, keyVars, mfVars, gdlVars, wrVars>>

PbUpdate ==
    /\ \E k \in 1..2, due \in BOOLEAN :
        /\ pb.n + k <= MaxBarN
        /\ pb' = BarUpdate(pb, k, due).b
        /\ stdout' = BarUpdate(pb, k, due).out
    /\ UNCHANGED <<refresher, barRest>>

PbRefresh ==
    /\ pb' = BarRefresh(pb).b
    /\ stdout' = BarRefresh(pb).out
    /\ UNCHANGED <<refresher, barRest>>

PbWrite ==
    /\ pb' = BarWrite(pb).b
    /\ stdout' = BarWrite(pb).out
    /\ UNCHANGED <<refresher, barRest>>

PbCancel ==
    /\ pb' = BarCancel(pb).b
    /\ stdout' = BarCancel(pb).out
    /\ UNCHANGED <<refresher, barRest>>

PbClose ==
    /\ pb' = BarClose(pb).b
    /\ stdout' = BarClose(pb).out
    /\ UNCHANGED <<refresher, barRest>>

\* the hub starts the greenlet spawned on gevent_refresh_loop
PbLoopStart ==
    /\ refresher = "spawned"
    /\ IF LoopEnters(pb)
       THEN LET c == [pb EXCEPT !._running = TRUE]
            IN  /\ pb' = c
                /\ stdout' = LoopBody(c)
                /\ refresher' = "sleeping"
       ELSE /\ refresher' = "ended"
            /\ stdout' = <<>>
            /\ UNCHANGED pb
    /\ UNCHANGED barRest

\* gevent.sleep returns in the loop
PbLoopWake ==
    /\ refresher = "sleeping"
    /\ IF LoopGoesOn(pb)
       THEN stdout' = LoopBody(pb) /\ UNCHANGED refresher
       ELSE stdout' = <<>> /\ refresher' = "ended"
    /\ UNCHANGED <<pb, barRest>>

BarInit ==
    /\ RunStart(<<>>)
    /\ PathIdle
    /\ DlIdle
    /\ WrIdle
    /\ GdlIdle
    /\ MfIdle
    /\ IxIdle
    /\ CsIdle
    /\ KeyIdle
    /\ \E kind \in Kinds, disable \in BOOLEAN :
        /\ pb = NewProgress(kind, disable).b
        /\ stdout = NewProgress(kind, disable).out
    /\ refresher = "spawned"

BarNext ==
    PbUpdate \/ PbRefresh \/ PbWrite \/ PbCancel \/ PbClose \/ PbLoopStart
    \/ PbLoopWake

SpecBar == BarInit /\ [][BarNext]_vars

\* ---------------------------------------------------------------------------
\* gcmds.py: ManifestFileIndex on its own (lines 49-85).  A manifest is the
\* set of the paths of its files; manifest.iter_files(path) yields the file
\* of that path when the manifest has it.  A reference (manifest,
\* file_mapping) is <<m, path>> with m the place of the manifest in
\* self.manifests; None is the empty tuple.

MaxIxManifests == 2
MaxScans == 6

IxPaths == {"a", "b"}
None == <<>>

\* self._path_cache.get(path, None)
CacheGet(cache, path) == IF path \in DOMAIN cache THEN cache[path] ELSE None

\* self._path_cache[path] = ref
CachePut(cache, path, ref) ==
    [q \in DOMAIN cache \cup {path} |-> IF q = path THEN ref ELSE cache[q]]

\* lines 63-69: the loop over self.manifests from manifest m on, with ref the
\* reference found so far; no manifest ends the loop early
RECURSIVE ScanFrom(_, _, _, _)
ScanFrom(ms, m, path, ref) ==
    IF m > Len(ms) THEN ref
    ELSE ScanFrom(ms, m + 1, path, IF path \in ms[m] THEN <<m, path>> ELSE ref)

\* _locate_file_mapping(path) (lines 55-70): what it returns, the cache it
\* leaves and the iter_files calls it makes.  `if ref:` is false for None
LocateFileMapping(ms, cache, path) ==
    LET ref == CacheGet(cache, path)
    IN  IF ref # None
        THEN [ret |-> ref, cache |-> cache, calls |-> 0]
        ELSE LET found == ScanFrom(ms, 1, path, None)
             IN  [ret |-> found,
                  cache |-> CachePut(cache, path, found),
                  calls |-> Len(ms)]

\* index(pattern=None) (lines 72-76): every file of every manifest, in order
RECURSIVE IndexFrom(_, _, _)
IndexFrom(ms, m, cache) ==
    IF m > Len(ms) THEN cache
    ELSE IndexFrom(ms, m + 1,
             [q \in DOMAIN cache \cup ms[m] |->
                 IF q \in ms[m] THEN <<m, q>> ELSE cache[q]])

ixRest == <<runVars, pathVars, dlVars, barVars, csVars, keyVars, mfVars, gdlVars, wrVars>>

IxLocate ==
    /\ \E path \in IxPaths :
        LET r == LocateFileMapping(ix_manifests, path_cache, path)
        IN  /\ scans + r.calls <= MaxScans
            /\ path_cache' = r.cache
            /\ scans' = scans + r.calls
            /\ ix_call' = <<"_locate_file_mapping", path>>
            /\ ix_ret' = r.ret
    /\ UNCHANGED <<ix_manifests, ixRest>>

\* file_exists(path) (lines 78-79)
IxFileExists ==
    /\ \E path \in IxPaths :
        LET r == LocateFileMapping(ix_manifests, path_cache, path)
        IN  /\ scans + r.calls <= MaxScans
            /\ path_cache' = r.cache
            /\ scans' = scans + r.calls
            /\ ix_call' = <<"file_exists", path>>
            /\ ix_ret' = <<r.ret # None>>
    /\ UNCHANGED <<ix_manifests, ixRest>>

\* get_file(path) (lines 81-85)
IxGetFile ==
    /\ \E path \in IxPaths :
        LET r == LocateFileMapping(ix_manifests, path_cache, path)
        IN  /\ scans + r.calls <= MaxScans
            /\ path_cache' = r.cache
            /\ scans' = scans + r.calls
            /\ ix_call' = <<"get_file", path>>
            /\ ix_ret' = IF r.ret # None THEN <<"CTLDepotFile", r.ret>>
                         ELSE <<"SteamError">>
    /\ UNCHANGED <<ix_manifests, ixRest>>

IxIndex ==
    /\ scans + Len(ix_manifests) <= MaxScans
    /\ path_cache' = IndexFrom(ix_manifests, 1, path_cache)
    /\ scans' = scans + Len(ix_manifests)
    /\ ix_call' = <<"index">>
    /\ ix_ret' = None
    /\ UNCHANGED <<ix_manifests, ixRest>>

\* ManifestFileIndex(manifests) (lines 50-52)
IxInit ==
    /\ RunStart(<<>>)
    /\ PathIdle
    /\ DlIdle
    /\ WrIdle
    /\ GdlIdle
    /\ MfIdle
    /\ BarIdle
    /\ CsIdle
    /\ KeyIdle
    /\ \E k \in 1..MaxIxManifests : ix_manifests \in [1..k -> SUBSET IxPaths]
    /\ path_cache = <<>>
    /\ scans = 0
    /\ ix_call = <<>>
    /\ ix_ret = None

IxNext == IxLocate \/ IxFileExists \/ IxGetFile \/ IxIndex

SpecIndex == IxInit /\ [][IxNext]_vars

\* ---------------------------------------------------------------------------
\* clients.py: CachingCDNClient.fetch_content_servers on its own (lines
\* 119-142).  cs_servers.json holds [timestamp, servers] or gives nothing
\* (read_json returns None for a missing or unreadable file); the cell_id it
\* also holds plays no part.  The clock counts whole seconds.

TTL == 300
MaxCsCalls == 3

ServerLists == {<<"s1">>, <<"s2">>}
StartClock == TTL + 2
MaxWaits == 2
MaxClock == StartClock + MaxWaits * (TTL + 1)

\* a cache that never expires
Fresh_Forever(data, now) == data # <<>>

\* line 125: `data and (data['timestamp'] + 300) > time()`
Fresh(data, now) == data # <<>> /\ (data.timestamp + TTL) > now

csRest == <<runVars, pathVars, dlVars, barVars, ixVars, keyVars, mfVars, gdlVars, wrVars>>

\* fetch_content_servers(): a fresh cached list is appended to self.servers
\* entry by entry (lines 126-129); else CDNClient.fetch_content_servers
\* replaces the list, which is written back with int(time())
CsFetch ==
    /\ cs_calls < MaxCsCalls
    /\ cs_calls' = cs_calls + 1
    /\ cs_seen' = [data |-> cs_file, at |-> clock]
    /\ IF Fresh(cs_file, clock)
       THEN /\ servers' = servers \o cs_file.servers
            /\ UNCHANGED <<cs_file, cs_fetches>>
       ELSE /\ cs_fetches' = cs_fetches + 1
            /\ \E fetched \in ServerLists :
                /\ servers' = fetched
                /\ cs_file' = [timestamp |-> clock, servers |-> fetched]
    /\ UNCHANGED <<clock, csRest>>

\* time passes: a wait of just under, exactly or just over the time to live
CsTick ==
    /\ \E d \in {TTL - 1, TTL, TTL + 1} :
        /\ clock + d <= MaxClock
        /\ clock' = clock + d
    /\ UNCHANGED <<cs_file, servers, cs_fetches, cs_calls, cs_seen, csRest>>

\* the file is removed or damaged from outside
CsLose ==
    /\ cs_file # <<>>
    /\ cs_file' = <<>>
    /\ UNCHANGED <<clock, servers, cs_fetches, cs_calls, cs_seen, csRest>>

CsInit ==
    /\ RunStart(<<>>)
    /\ PathIdle
    /\ DlIdle
    /\ WrIdle
    /\ GdlIdle
    /\ MfIdle
    /\ BarIdle
    /\ IxIdle
    /\ KeyIdle
    /\ clock = StartClock
    /\ cs_file \in {<<>>} \cup
           {[timestamp |-> StartClock - age, servers |-> l] :
                age \in {0, TTL - 1, TTL, TTL + 1}, l \in ServerLists}
    /\ servers = <<>>
    /\ cs_fetches = 0
    /\ cs_calls = 0
    /\ cs_seen = <<>>

CsNext == CsFetch \/ CsTick \/ CsLose

SpecServers == CsInit /\ [][CsNext]_vars

\* ---------------------------------------------------------------------------
\* clients.py: the depot keys of a CachingCDNClient on their own (lines
\* 144-188).  A key map is a function from depot ids to keys.  A key file is
\* [st, keys]: st is "ok" (keys is what it holds), "absent", "unreadable"
\* (open fails) or "malformed" (json.load, int() or bytes.fromhex fails).  The
\* default store is written by write_json only, so it is never malformed.

NDepots == 2

Depots == 1..NDepots
Keys == {"ka", "kb"}
KeyMaps == UNION {[ds -> Keys] : ds \in SUBSET Depots}
NoKeys == <<>>

KeyFile(st, keys) == [st |-> st, keys |-> keys]
KeyFiles ==
    {KeyFile("ok", m) : m \in KeyMaps}
    \cup {KeyFile(st, NoKeys) : st \in {"absent", "unreadable", "malformed"}}

\* dict.update
Updated(m, with) ==
    [d \in DOMAIN m \cup DOMAIN with |-> IF d \in DOMAIN with THEN with[d] ELSE m[d]]

\* lines 169-173: UserDataFile('depot_keys.json').read_json() or {}
DefaultKeys(dflt) == IF dflt.st = "ok" THEN dflt.keys ELSE NoKeys

\* a get_cached_depot_keys without its try/except
GetCachedDepotKeys_Raising(given, custom, dflt) ==
    IF given /\ custom.st # "absent"
    THEN IF custom.st = "ok"
         THEN [keys |-> custom.keys, raised |-> FALSE]
         ELSE [keys |-> NoKeys, raised |-> TRUE]
    ELSE [keys |-> DefaultKeys(dflt), raised |-> FALSE]

\* get_cached_depot_keys (lines 155-173): the custom file when a path was
\* given, the file exists and it loads; the default store otherwise
GetCachedDepotKeys(given, custom, dflt) ==
    IF given /\ custom.st # "absent"
    THEN IF custom.st = "ok"
         THEN [keys |-> custom.keys, raised |-> FALSE]
         ELSE [keys |-> DefaultKeys(dflt), raised |-> FALSE]
    ELSE [keys |-> DefaultKeys(dflt), raised |-> FALSE]

\* most loads that are told apart: the count stays there once it is reached
MaxKeyLoads == 2

\* line 146: `if not self._depot_keys:` -- the property loads the backing file
Loads(mem) == ~mem.set \/ mem.keys = NoKeys

\* the count of loads after one access of the property
LoadsAfter(n, mem) ==
    IF Loads(mem) /\ n < MaxKeyLoads THEN n + 1 ELSE n

\* the property depot_keys (lines 144-149): `if not self._depot_keys` holds
\* for None and for the empty dict
DepotKeysProperty(mem, cached) ==
    IF Loads(mem)
    THEN [set |-> TRUE, keys |-> cached.keys]
    ELSE mem

\* a save_cache that writes the default store whatever the client was given
WritesDefault_Always(given) == TRUE

\* line 187: `if not self.custom_depot_keys_file:`
WritesDefault(given) == ~given

keyRest == <<runVars, pathVars, dlVars, barVars, ixVars, csVars, mfVars, gdlVars, wrVars>>

\* get_cached_depot_keys()
KeyGetCached ==
    /\ key_call' = "get_cached_depot_keys"
    /\ key_ret' = GetCachedDepotKeys(custom_depot_keys_file, custom_disk, default_disk)
    /\ UNCHANGED <<custom_depot_keys_file, custom_disk, default_disk, _depot_keys,
                   key_loads, keyRest>>

\* line 212: `manifest.depot_id in self.depot_keys`, one access of the property
KeyContains ==
    /\ \E d \in Depots :
        LET cached == GetCachedDepotKeys(custom_depot_keys_file, custom_disk,
                                         default_disk)
            mem == DepotKeysProperty(_depot_keys, cached)
        IN  /\ _depot_keys' = mem
            /\ key_ret' = [keys |-> mem.keys, raised |-> FALSE]
    /\ key_loads' = LoadsAfter(key_loads, _depot_keys)
    /\ key_call' = "in depot_keys"
    /\ UNCHANGED <<custom_depot_keys_file, custom_disk, default_disk, keyRest>>

\* a key lookup (line 229 and CDNClient.get_depot_key): the key in
\* self.depot_keys, or a key obtained from outside and put there
KeyLookup ==
    /\ \E d \in Depots, k \in Keys :
        LET cached == GetCachedDepotKeys(custom_depot_keys_file, custom_disk,
                                         default_disk)
            mem == DepotKeysProperty(_depot_keys, cached)
        IN  IF (~_depot_keys.set \/ _depot_keys.keys = NoKeys) /\ cached.raised
            THEN /\ key_ret' = cached
                 /\ UNCHANGED _depot_keys
            ELSE IF d \in DOMAIN mem.keys
            THEN /\ _depot_keys' = mem
                 /\ key_ret' = [keys |-> mem.keys, raised |-> FALSE]
            ELSE /\ _depot_keys' = [mem EXCEPT !.keys = Updated(@, d :> k)]
                 /\ key_ret' = [keys |-> Updated(mem.keys, d :> k), raised |-> FALSE]
    /\ key_call' = "get_depot_key"
    /\ key_loads' = LoadsAfter(key_loads, _depot_keys)
    /\ UNCHANGED <<custom_depot_keys_file, custom_disk, default_disk, keyRest>>

\* save_cache() (lines 175-188)
KeySave ==
    /\ LET cached == GetCachedDepotKeys(custom_depot_keys_file, custom_disk,
                                        default_disk)
           mem == DepotKeysProperty(_depot_keys, cached)
           merged == Updated(mem.keys, cached.keys)
       IN  IF cached.raised
           THEN /\ key_ret' = cached
                /\ UNCHANGED <<_depot_keys, default_disk>>
           ELSE IF cached.keys = mem.keys
           THEN /\ _depot_keys' = mem
                /\ key_ret' = [keys |-> NoKeys, raised |-> FALSE]
                /\ UNCHANGED default_disk
           ELSE /\ _depot_keys' = [mem EXCEPT !.keys = merged]
                /\ key_ret' = [keys |-> NoKeys, raised |-> FALSE]
                /\ IF WritesDefault(custom_depot_keys_file)
                   THEN default_disk' = KeyFile("ok", merged)
                   ELSE UNCHANGED default_disk
    /\ key_call' = "save_cache"
    /\ key_loads' = LoadsAfter(key_loads, _depot_keys)
    /\ UNCHANGED <<custom_depot_keys_file, custom_disk, keyRest>>

\* CachingCDNClient(..., custom_depot_keys_file) (lines 113-117)
KeyInit ==
    /\ RunStart(<<>>)
    /\ PathIdle
    /\ DlIdle
    /\ WrIdle
    /\ GdlIdle
    /\ MfIdle
    /\ BarIdle
    /\ IxIdle
    /\ CsIdle
    /\ custom_depot_keys_file \in BOOLEAN
    /\ custom_disk \in KeyFiles
    /\ ~custom_depot_keys_file => custom_disk = KeyFile("absent", NoKeys)
    /\ default_disk \in {f \in KeyFiles : f.st # "malformed"}
    /\ _depot_keys = [set |-> FALSE, keys |-> NoKeys]
    /\ key_call = ""
    /\ key_ret = [keys |-> NoKeys, raised |-> FALSE]
    /\ key_loads = 0

KeyNext == KeyGetCached \/ KeyContains \/ KeyLookup \/ KeySave

SpecKeys == KeyInit /\ [][KeyNext]_vars

\* ---------------------------------------------------------------------------
\* clients.py: CachingCDNClient.get_cached_manifest and get_manifest for one
\* key (app_id, depot_id, manifest_gid) on their own (lines 190-244).  A
\* manifest is [gid, nfiles, enc]: its gid (0 for the empty manifest an empty
\* file parses to), the number of its file mappings, filenames_encrypted.
\* The cache file is [st, manifest] with st "ok", "absent" or "corrupt" (the
\* parse fails).  None is the empty tuple.

MaxMfCalls == 3
MaxMfFiles == 1

Manifest(gid, nfiles, enc) == [gid |-> gid, nfiles |-> nfiles, enc |-> enc]
RealManifests == {Manifest(1, n, e) : n \in 0..MaxMfFiles, e \in BOOLEAN}
EmptyManifest == Manifest(0, 0, FALSE)

CacheFile(st, m) == [st |-> st, manifest |-> m]
CacheFiles ==
    {CacheFile("ok", m) : m \in RealManifests \cup {EmptyManifest}}
    \cup {CacheFile(st, None) : st \in {"absent", "corrupt"}}

\* `if not manifest:` (line 235): None is falsy, and so is a manifest without
\* file mappings, DepotManifest having __len__ (the number of its mappings)
\* and no __bool__
Truthy(m) == m # None /\ m.nfiles > 0

\* get_cached_manifest that leaves a file it could not use where it is
GetCachedManifest_KeepsStale(mem, file, haskey) ==
    IF mem # None
    THEN [ret |-> mem, mem |-> mem, file |-> file, read |-> 0]
    ELSE IF file.st = "absent"
    THEN [ret |-> None, mem |-> mem, file |-> file, read |-> 0]
    ELSE IF file.st = "ok" /\ file.manifest.gid > 0
    THEN LET m == IF file.manifest.enc /\ haskey
                  THEN [file.manifest EXCEPT !.enc = FALSE]
                  ELSE file.manifest
         IN  [ret |-> m, mem |-> m, file |-> CacheFile("ok", m), read |-> 1]
    ELSE [ret |-> None, mem |-> mem, file |-> file, read |-> 1]

\* get_cached_manifest (lines 190-223): what it returns, what it leaves in
\* memory and on disk, and whether it read the file
GetCachedManifest(mem, file, haskey) ==
    IF mem # None
    THEN [ret |-> mem, mem |-> mem, file |-> file, read |-> 0]
    ELSE IF file.st = "absent"
    THEN [ret |-> None, mem |-> mem, file |-> file, read |-> 0]
    ELSE IF file.st = "ok" /\ file.manifest.gid > 0
    THEN LET m == IF file.manifest.enc /\ haskey
                  THEN [file.manifest EXCEPT !.enc = FALSE]
                  ELSE file.manifest
         IN  [ret |-> m, mem |-> m, file |-> CacheFile("ok", m), read |-> 1]
    ELSE [ret |-> None, mem |-> mem, file |-> CacheFile("absent", None), read |-> 1]

mfRest == <<runVars, pathVars, dlVars, barVars, ixVars, csVars, keyVars, gdlVars, wrVars>>

MfGetCached ==
    /\ mf_calls < MaxMfCalls
    /\ mf_calls' = mf_calls + 1
    /\ mf_call' = "get_cached_manifest"
    /\ LET r == GetCachedManifest(mf_mem, mf_disk, mf_haskey)
       IN  /\ mf_ret' = r.ret
           /\ mf_mem' = r.mem
           /\ mf_disk' = r.file
           /\ mf_reads' = mf_reads + r.read
    /\ UNCHANGED <<mf_haskey, mf_fetches, mfRest>>

\* CDNClient.get_manifest, called at line 236: the manifest self.manifests
\* holds for the key when it holds one, else a manifest fetched from a content
\* server, its filenames decrypted when decrypt
FetchManifest(mem, decrypt) ==
    IF mem # None
    THEN {mem}
    ELSE {f \in RealManifests : decrypt => ~f.enc}

\* get_manifest (lines 225-244); mf_fetches counts the calls of
\* CDNClient.get_manifest
MfGet ==
    /\ mf_calls < MaxMfCalls
    /\ mf_calls' = mf_calls + 1
    /\ mf_call' = "get_manifest"
    /\ \E decrypt \in BOOLEAN :
        LET haskey == mf_haskey \/ decrypt
            r == GetCachedManifest(mf_mem, mf_disk, haskey)
        IN  /\ mf_haskey' = haskey
            /\ mf_reads' = mf_reads + r.read
            /\ IF Truthy(r.ret)
               THEN /\ mf_mem' = r.mem
                    /\ mf_disk' = r.file
                    /\ mf_ret' = r.mem
                    /\ UNCHANGED mf_fetches
               ELSE /\ mf_fetches' = mf_fetches + 1
                    /\ \E fetched \in FetchManifest(r.mem, decrypt) :
                        /\ mf_mem' = fetched
                        /\ mf_disk' = CacheFile("ok", fetched)
                        /\ mf_ret' = fetched
    /\ UNCHANGED mfRest

\* the cache file is removed or damaged from outside
MfLose ==
    /\ mf_disk.st = "ok"
    /\ \E st \in {"absent", "corrupt"} : mf_disk' = CacheFile(st, None)
    /\ UNCHANGED <<mf_mem, mf_haskey, mf_fetches, mf_reads, mf_calls, mf_call,
                   mf_ret, mfRest>>

MfInit ==
    /\ RunStart(<<>>)
    /\ PathIdle
    /\ DlIdle
    /\ WrIdle
    /\ GdlIdle
    /\ BarIdle
    /\ IxIdle
    /\ CsIdle
    /\ KeyIdle
    /\ mf_mem \in {None} \cup RealManifests
    /\ mf_disk \in CacheFiles
    /\ mf_haskey \in BOOLEAN
    /\ mf_fetches = 0
    /\ mf_reads = 0
    /\ mf_calls = 0
    /\ mf_call = ""
    /\ mf_ret = None

MfNext == MfGetCached \/ MfGet \/ MfLose

SpecManifest == MfInit /\ [][MfNext]_vars

\* ---------------------------------------------------------------------------
\* reboot_downloader.py: get_data_local (lines 155-274) and what main() does
\* with its result (lines 388-420), on their own.  A text is a sequence of
\* characters (strings of length one), a file of bytes a sequence of numbers
\* in 0..255, a 32-bit unsigned integer the four bytes of its little-endian
\* form (struct's native order on the platforms the program is built for).
\* The three directories searched are one: a file exists or it does not.

\* most directives of a descriptor
MaxDirectives == 3
\* bytes dropped from the head of the decompressed data (line 230)
Padding == 512

\* the characters the descriptors studied are written in, with their code
\* points (all below 128: one byte each in UTF-8)
Ord ==
    "a" :> 97 @@ "d" :> 100 @@ "p" :> 112 @@ "i" :> 105 @@ "s" :> 115 @@
    "e" :> 101 @@ "t" :> 116 @@ "M" :> 77 @@ "n" :> 110 @@ "f" :> 102 @@
    "(" :> 40 @@ ")" :> 41 @@ "," :> 44 @@ "\"" :> 34 @@ "\n" :> 10 @@
    " " :> 32 @@ "0" :> 48 @@ "1" :> 49 @@ "2" :> 50 @@ "7" :> 55 @@
    "8" :> 56 @@ "b" :> 98 @@ "A" :> 65 @@ "x" :> 120
Alphabet == DOMAIN Ord
Digit == {"0", "1", "2", "7", "8"}
HexLower == Digit \cup {"a", "b", "d", "e", "f"}
Space == {" ", "\n"}

AddWord == <<"a", "d", "d", "a", "p", "p", "i", "d", "(">>
SetWord == <<"s", "e", "t", "M", "a", "n", "i", "f", "e", "s", "t", "i", "d", "(">>

\* a ^ b on natural numbers
RECURSIVE Xor(_, _)
Xor(a, b) ==
    IF a = 0 THEN b
    ELSE IF b = 0 THEN a
    ELSE 2 * Xor(a \div 2, b \div 2) + ((a + b) % 2)

\* 0xFFFEA4C8
XorMask == <<200, 164, 254, 255>>

\* the key without the constant mixed in
XorKey_NoMask(raw) == raw[1]

\* lines 220-221: xorkey ^= 0xFFFEA4C8, then xorkey &= 0xFF keeps the lowest
\* byte
XorKey(raw) == [i \in 1..4 |-> Xor(raw[i], XorMask[i])][1]

\* the number four little-endian bytes stand for
Value(u) == u[1] + 256 * u[2] + 65536 * u[3] + 16777216 * u[4]

\* s[lo] + ... + s[hi]
RECURSIVE SumOf(_, _, _)
SumOf(s, lo, hi) ==
    IF lo > hi THEN 0
    ELSE IF lo = hi THEN s[lo]
    ELSE SumOf(s, lo, (lo + hi) \div 2) + SumOf(s, (lo + hi) \div 2 + 1, hi)

\* Adler-32 of a byte string, as the four big-endian bytes that end a zlib
\* stream: a is 1 plus the sum of the bytes, b the sum of the values a takes
\* byte after byte, both modulo 65521
Adler32(s) ==
    LET n == Len(s)
        a == (1 + SumOf(s, 1, n)) % 65521
        b == (n + SumOf([i \in 1..n |-> (n - i + 1) * s[i]], 1, n)) % 65521
    IN  <<b \div 256, b % 256, a \div 256, a % 256>>

ZlibError == [ok |-> FALSE, data |-> <<>>]

\* zlib.decompress (line 229) on the streams studied: a two-byte header, one
\* final stored block (its length, the complement of its length, its bytes)
\* and the Adler-32 of the bytes; what follows the stream is ignored.  A
\* stream cut short, a bad header, bad block lengths or a bad checksum raise
\* zlib.error.
Decompress(data) ==
    IF Len(data) < 7 THEN ZlibError
    ELSE IF data[1] # 120 \/ (data[1] * 256 + data[2]) % 31 # 0 \/ (data[2] \div 32) % 2 = 1
    THEN ZlibError
    ELSE IF data[3] # 1 THEN ZlibError
    ELSE LET len == data[4] + 256 * data[5]
             nlen == data[6] + 256 * data[7]
         IN  IF len + nlen # 65535 THEN ZlibError
             ELSE IF Len(data) < 7 + len + 4 THEN ZlibError
             ELSE IF SubSeq(data, 8 + len, 11 + len) # Adler32(SubSeq(data, 8, 7 + len))
             THEN ZlibError
             ELSE [ok |-> TRUE, data |-> SubSeq(data, 8, 7 + len)]

\* bytes.decode('utf-8') (line 230) on bytes below 128
Utf8Decode(bytes) ==
    IF \A i \in DOMAIN bytes : \E c \in Alphabet : Ord[c] = bytes[i]
    THEN [err |-> "",
          text |-> SubSeq([i \in DOMAIN bytes |-> CHOOSE c \in Alphabet : Ord[c] = bytes[i]],
                          1, Len(bytes))]
    ELSE [err |-> "UnicodeDecodeError", text |-> <<>>]

\* the decoder that takes the payload as it is stored
DecodeSt_NoXor(content) ==
    IF Len(content) < 12
    THEN [err |-> "struct.error", text |-> <<>>]
    ELSE LET nbytes == Value(SubSeq(content, 5, 8))
             last == IF 12 + nbytes < Len(content) THEN 12 + nbytes ELSE Len(content)
             decompressed_data == Decompress(SubSeq(content, 13, last))
         IN  IF ~decompressed_data.ok
             THEN [err |-> "zlib.error", text |-> <<>>]
             ELSE Utf8Decode(SubSeq(decompressed_data.data, Padding + 1,
                                    Len(decompressed_data.data)))

\* lines 213-230: the text an .st file holds.  struct.unpack raises when the
\* header has fewer than 12 bytes; content[12:12+nbytes] is what there is of
\* these bytes, no error when there are fewer
DecodeSt(content) ==
    IF Len(content) < 12
    THEN [err |-> "struct.error", text |-> <<>>]
    ELSE LET xorkey == XorKey(SubSeq(content, 1, 4))
             nbytes == Value(SubSeq(content, 5, 8))
             last == IF 12 + nbytes < Len(content) THEN 12 + nbytes ELSE Len(content)
             data == SubSeq([i \in 1..last |-> Xor(content[i], xorkey)], 13, last)
             decompressed_data == Decompress(data)
         IN  IF ~decompressed_data.ok
             THEN [err |-> "zlib.error", text |-> <<>>]
             ELSE Utf8Decode(SubSeq(decompressed_data.data, Padding + 1,
                                    Len(decompressed_data.data)))

\* regular expressions: a position is an index into the text, 0 for no match.
\* Span is the end of the longest run of characters of a class from i on;
\* Star is class*, Plus is class+, Lit a literal word.  The classes that
\* follow one another in the two patterns are disjoint, so the longest run
\* is the only one that can match.
RECURSIVE Span(_, _, _)
Span(s, i, class) ==
    IF i <= Len(s) /\ s[i] \in class THEN Span(s, i + 1, class) ELSE i
Star(s, i, class) == IF i = 0 THEN 0 ELSE Span(s, i, class)
Plus(s, i, class) == IF i = 0 \/ Span(s, i, class) = i THEN 0 ELSE Span(s, i, class)
Lit(s, i, w) ==
    IF i # 0 /\ i + Len(w) - 1 <= Len(s) /\ SubSeq(s, i, i + Len(w) - 1) = w
    THEN i + Len(w)
    ELSE 0

NoMatch == [end |-> 0, depot |-> <<>>, arg |-> <<>>]

\* addappid_pattern (line 233) matched at position i:
\* addappid\(\s*(\d+)\s*(?:,\s*\d+\s*,\s*"([0-9a-f]+)"\s*)?\)
MatchAdd(s, i) ==
    LET p1 == Star(s, Lit(s, i, AddWord), Space)
        p2 == Plus(s, p1, Digit)
        p3 == Star(s, p2, Space)
        g1 == Star(s, Lit(s, p3, <<",">>), Space)
        g2 == Star(s, Plus(s, g1, Digit), Space)
        g3 == Lit(s, Star(s, Lit(s, g2, <<",">>), Space), <<"\"">>)
        g4 == Plus(s, g3, HexLower)
        g5 == Star(s, Lit(s, g4, <<"\"">>), Space)
    IN  IF Lit(s, g5, <<")">>) # 0
        THEN [end |-> Lit(s, g5, <<")">>), depot |-> SubSeq(s, p1, p2 - 1),
              arg |-> SubSeq(s, g3, g4 - 1)]
        ELSE IF Lit(s, p3, <<")">>) # 0
        THEN [end |-> Lit(s, p3, <<")">>), depot |-> SubSeq(s, p1, p2 - 1),
              arg |-> <<>>]
        ELSE NoMatch

\* setmanifestid_pattern (line 234) matched at position i:
\* setManifestid\(\s*(\d+)\s*,\s*"(\d+)"\s*(?:,\s*\d+\s*)?\)
MatchSet(s, i) ==
    LET p1 == Star(s, Lit(s, i, SetWord), Space)
        p2 == Plus(s, p1, Digit)
        p3 == Lit(s, Star(s, Lit(s, Star(s, p2, Space), <<",">>), Space), <<"\"">>)
        p4 == Plus(s, p3, Digit)
        p5 == Star(s, Lit(s, p4, <<"\"">>), Space)
        g1 == Star(s, Plus(s, Star(s, Lit(s, p5, <<",">>), Space), Digit), Space)
    IN  IF Lit(s, g1, <<")">>) # 0
        THEN [end |-> Lit(s, g1, <<")">>), depot |-> SubSeq(s, p1, p2 - 1),
              arg |-> SubSeq(s, p3, p4 - 1)]
        ELSE IF Lit(s, p5, <<")">>) # 0
        THEN [end |-> Lit(s, p5, <<")">>), depot |-> SubSeq(s, p1, p2 - 1),
              arg |-> SubSeq(s, p3, p4 - 1)]
        ELSE NoMatch

\* pattern.finditer(content): the matches from left to right, none
\* overlapping another
RECURSIVE FindAdd(_, _)
FindAdd(s, i) ==
    IF i > Len(s) THEN <<>>
    ELSE IF MatchAdd(s, i).end # 0
    THEN <<MatchAdd(s, i)>> \o FindAdd(s, MatchAdd(s, i).end)
    ELSE FindAdd(s, i + 1)

RECURSIVE FindSet(_, _)
FindSet(s, i) ==
    IF i > Len(s) THEN <<>>
    ELSE IF MatchSet(s, i).end # 0
    THEN <<MatchSet(s, i)>> \o FindSet(s, MatchSet(s, i).end)
    ELSE FindSet(s, i + 1)

\* d[k] = v on a dict, a sequence of <<key, value>> in insertion order
DictSet(d, k, v) ==
    IF \E j \in DOMAIN d : d[j][1] = k
    THEN [j \in DOMAIN d |-> IF d[j][1] = k THEN <<k, v>> ELSE d[j]]
    ELSE Append(d, <<k, v>>)

\* the dict that forgets the keys it held
DepotKeys_LastOnly(ms, d) ==
    IF ms = <<>> THEN d
    ELSE IF ms[Len(ms)].arg # <<>> THEN <<<<ms[Len(ms)].depot, ms[Len(ms)].arg>>>>
    ELSE d

\* lines 236-240: depot_keys after the addappid matches ms, from d
RECURSIVE DepotKeys(_, _)
DepotKeys(ms, d) ==
    IF ms = <<>> THEN d
    ELSE DepotKeys(Tail(ms), IF Head(ms).arg # <<>>
                             THEN DictSet(d, Head(ms).depot, Head(ms).arg)
                             ELSE d)

\* lines 247-267: collected_depots after the setManifestid matches ms, paths
\* being the manifest files that exist
RECURSIVE CollectedDepots(_, _)
CollectedDepots(ms, paths) ==
    IF ms = <<>> THEN <<>>
    ELSE (IF <<Head(ms).depot, Head(ms).arg>> \in paths
          THEN <<<<Head(ms).depot, Head(ms).arg>>>>
          ELSE <<>>) \o CollectedDepots(Tail(ms), paths)

File(exists, content) == [exists |-> exists, content |-> content]
NoSuchFile == File(FALSE, <<>>)
Raised(err) == [err |-> err, keys |-> NoSuchFile, ret |-> <<>>]

\* get_data_local (lines 155-274): the exception it raises ("" for none),
\* what it leaves in depot_keys.json and what it returns.  The .lua file is
\* looked for first and read as text; the .st file counts only without it.
GetDataLocal(lua, st, paths) ==
    IF ~lua.exists /\ ~st.exists THEN Raised("FileNotFoundError")
    ELSE LET content == IF lua.exists
                        THEN [err |-> "", text |-> lua.content]
                        ELSE DecodeSt(st.content)
         IN  IF content.err # "" THEN Raised(content.err)
             ELSE [err |-> "",
                   keys |-> File(TRUE, DepotKeys(FindAdd(content.text, 1), <<>>)),
                   ret |-> CollectedDepots(FindSet(content.text, 1), paths)]

\* ---- the descriptors studied
\* a directive is [op, depot, arg]: addappid with its key (<<>> for none),
\* setManifestid with its manifest id, or "junk", an addappid whose key is
\* not lower-case hexadecimal
Directive(op, depot, arg) == [op |-> op, depot |-> depot, arg |-> arg]
DepotIds == {<<"1">>, <<"2">>}
Directives ==
    {Directive("addappid", d, <<"a">>) : d \in DepotIds}
    \cup {Directive("addappid", <<"1">>, <<"b", "0">>), Directive("addappid", <<"2">>, <<>>)}
    \cup {Directive("setManifestid", d, <<"7", "8">>) : d \in DepotIds}
    \cup {Directive("junk", <<"1">>, <<"A">>)}

\* the text of a directive, written without optional parts and blanks or
\* (loose) with all of them
Render(d, loose) ==
    LET sp == IF loose THEN <<" ">> ELSE <<>>
        q == <<"\"">>
        c == sp \o <<",">> \o sp
    IN  IF d.op = "setManifestid"
        THEN SetWord \o sp \o d.depot \o c \o q \o d.arg \o q
             \o (IF loose THEN c \o <<"0">> ELSE <<>>) \o sp \o <<")", "\n">>
        ELSE AddWord \o sp \o d.depot
             \o (IF d.arg # <<>> THEN c \o <<"0">> \o c \o q \o d.arg \o q ELSE <<>>)
             \o sp \o <<")", "\n">>

RECURSIVE TextOf(_, _)
TextOf(ds, loose) ==
    IF ds = <<>> THEN <<>> ELSE Render(Head(ds), loose) \o TextOf(Tail(ds), loose)

DirectiveLists == UNION {[1..n -> Directives] : n \in 0..MaxDirectives}

\* zlib.compress(bytes, 0) for fewer than 65536 bytes: one stored block
Compress(bytes) ==
    <<120, 1, 1, Len(bytes) % 256, Len(bytes) \div 256,
      255 - (Len(bytes) % 256), 255 - (Len(bytes) \div 256)>>
    \o bytes \o Adler32(bytes)

ToU32(n) == <<n % 256, (n \div 256) % 256, (n \div 65536) % 256, 0>>

\* 0x12345678, and 0xFFFEA4C8 whose key byte is 0
Raw12345678 == <<120, 86, 52, 18>>
Raws == {Raw12345678, XorMask}

ContainerKinds == {"lua", "st", "both", "none", "short", "less", "more", "cut", "flip"}

\* an .st file that holds a text: the header (xorkey_raw, payload_size,
\* verify), then 512 bytes of padding and the text, compressed, each byte
\* XORed with the key byte.  Damaged ones: "short" stops inside the header,
\* "less" and "more" state a payload size one off, "cut" lacks the last
\* byte of the payload, "flip" has one byte of the padding changed.
StFile(text, raw, kind) ==
    LET z == Compress([i \in 1..Padding |-> 0] \o [i \in DOMAIN text |-> Ord[text[i]]])
        key == Xor(raw[1], 200)
        nbytes == IF kind = "less" THEN Len(z) - 1
                ELSE IF kind = "more" THEN Len(z) + 1 ELSE Len(z)
        whole == raw \o ToU32(nbytes) \o <<0, 0, 0, 0>> \o [i \in DOMAIN z |-> Xor(z[i], key)]
    IN  IF kind = "short" THEN SubSeq(whole, 1, 11)
        ELSE IF kind = "cut" THEN SubSeq(whole, 1, Len(whole) - 1)
        ELSE IF kind = "flip" THEN [whole EXCEPT ![20] = (@ + 1) % 256]
        ELSE whole

AllPaths == {<<d, <<"7", "8">>>> : d \in DepotIds}

gdlRest == <<runVars, pathVars, dlVars, barVars, ixVars, csVars, keyVars, mfVars, wrVars>>

\* main() awaits get_data_local (line 390)
GetDataLocalCall ==
    /\ gdl_pc = "main"
    /\ \E r \in {GetDataLocal(lua_file, st_file, manifest_paths)} :
           /\ gdl_err' = r.err
           /\ depot_keys_json' = r.keys
           /\ collected_depots' = r.ret
           /\ gdl_pc' = IF r.err = "" THEN "returned" ELSE "raised"
    /\ UNCHANGED <<lua_file, st_file, manifest_paths, directives, container, gdlRest>>

\* main() after get_data_local (lines 392-418): an exception is reported and
\* the run is over; without manifests, or with cancellation requested, there
\* is no download; else depotdownloadermod_add is called
MainAfterData ==
    /\ gdl_pc \in {"returned", "raised"}
    /\ gdl_pc' = IF gdl_pc = "raised" THEN "failed"
                 ELSE IF is_canceling THEN "canceled"
                 ELSE IF collected_depots # <<>> THEN "download"
                 ELSE "no_manifests"
    /\ UNCHANGED <<lua_file, st_file, manifest_paths, directives, container,
                   depot_keys_json, collected_depots, gdl_err, gdlRest>>

GdlInit ==
    /\ RunStart(<<>>)
    /\ PathIdle
    /\ DlIdle
    /\ WrIdle
    /\ BarIdle
    /\ IxIdle
    /\ CsIdle
    /\ KeyIdle
    /\ MfIdle
    /\ directives \in DirectiveLists
    /\ \E kind \in ContainerKinds, loose \in BOOLEAN, raw \in Raws :
        /\ Len(directives) > 1 => kind \in {"lua", "st"}
        /\ (loose \/ raw # Raw12345678) => (kind = "lua" \/ Len(directives) <= 1)
        /\ (raw # Raw12345678) => kind = "st"
        /\ container = [kind |-> kind, loose |-> loose, raw |-> raw]
        /\ lua_file = IF kind \in {"lua", "both"}
                      THEN File(TRUE, TextOf(directives, loose))
                      ELSE NoSuchFile
        /\ st_file = IF kind \in {"lua", "none"} THEN NoSuchFile
                     ELSE IF kind = "both"
                     THEN File(TRUE, StFile(<<>>, raw, "st"))
                     ELSE File(TRUE, StFile(TextOf(directives, loose), raw, kind))
    /\ manifest_paths \in {AllPaths, {<<<<"2">>, <<"7", "8">>>>}}
    /\ (container.kind = "st" /\ Len(directives) > 1) => manifest_paths = AllPaths
    /\ depot_keys_json = NoSuchFile
    /\ collected_depots = <<>>
    /\ gdl_err = ""
    /\ gdl_pc = "main"

GdlNext == GetDataLocalCall \/ MainAfterData

SpecDescriptor == GdlInit /\ [][GdlNext]_vars

\* ---------------------------------------------------------------------------
\* gcmds.py lines 254-275 with clients.py lines 51-68: the target files of
\* the greenlets of one cmd_depot_download.  Every file entry of every
\* manifest gets a greenlet (fewer entries than the pool holds, so spawn
\* never blocks); a greenlet runs once the main greenlet waits in
\* tasks.join(), opens its target and keeps it open while it waits for its
\* chunks.

\* most manifests handed to one call, most file entries of a manifest
MaxWrManifests == 2
MaxWrEntries == 2

WrNames == {<<"a">>, <<"a", "a">>, <<"a", "/", "a">>, <<"a", "\\", "a">>}

\* the filenames of a manifest are distinct
WrManifests ==
    {m \in UNION {[1..n -> WrNames] : n \in 1..MaxWrEntries} :
        \A i, j \in DOMAIN m : m[i] = m[j] => i = j}

\* the file entries in the order of the two loops (lines 255-263)
RECURSIVE Flatten(_)
Flatten(ms) == IF ms = <<>> THEN <<>> ELSE Head(ms) \o Flatten(Tail(ms))

\* clients.py lines 52-59: the file download_to opens for a filename
TargetPath(name, nd) ==
    LET rel == sanitizerelpath(name)
    IN  abspath(PathJoin(Target, IF nd THEN basename(rel) ELSE rel))

wrRest == <<runVars, pathVars, dlVars, barVars, ixVars, csVars, keyVars, mfVars, gdlVars>>

\* lines 265-269: tasks.spawn for the next file entry
WrSpawn ==
    /\ wr_pc = "loop"
    /\ \E i \in DOMAIN wr_st :
        /\ wr_st[i] = "unspawned"
        /\ \A j \in 1..(i - 1) : wr_st[j] # "unspawned"
        /\ wr_st' = [wr_st EXCEPT ![i] = "pending"]
    /\ UNCHANGED <<wr_manifests, wr_no_dirs, wr_pc, wrRest>>

\* line 275: the loops are over and the main greenlet waits for the pool
WrJoin ==
    /\ wr_pc = "loop"
    /\ \A i \in DOMAIN wr_st : wr_st[i] # "unspawned"
    /\ wr_pc' = "join"
    /\ UNCHANGED <<wr_manifests, wr_no_dirs, wr_st, wrRest>>

\* a greenlet starts: download_to opens its target (clients.py line 68) and
\* waits in get_chunk
WrOpen ==
    /\ wr_pc = "join"
    /\ \E i \in DOMAIN wr_st :
        /\ wr_st[i] = "pending"
        /\ wr_st' = [wr_st EXCEPT ![i] = "open"]
    /\ UNCHANGED <<wr_manifests, wr_no_dirs, wr_pc, wrRest>>

\* a greenlet has written its last chunk: the with block closes the file
WrClose ==
    /\ wr_pc = "join"
    /\ \E i \in DOMAIN wr_st :
        /\ wr_st[i] = "open"
        /\ wr_st' = [wr_st EXCEPT ![i] = "done"]
    /\ UNCHANGED <<wr_manifests, wr_no_dirs, wr_pc, wrRest>>

\* tasks.join() returns
WrReturn ==
    /\ wr_pc = "join"
    /\ \A i \in DOMAIN wr_st : wr_st[i] = "done"
    /\ wr_pc' = "done"
    /\ UNCHANGED <<wr_manifests, wr_no_dirs, wr_st, wrRest>>

WrInit ==
    /\ RunStart(<<>>)
    /\ PathIdle
    /\ DlIdle
    /\ BarIdle
    /\ IxIdle
    /\ CsIdle
    /\ KeyIdle
    /\ MfIdle
    /\ GdlIdle
    /\ wr_manifests \in UNION {[1..k -> WrManifests] : k \in 1..MaxWrManifests}
    /\ wr_no_dirs \in BOOLEAN
    /\ wr_st = [i \in DOMAIN Flatten(wr_manifests) |-> "unspawned"]
    /\ wr_pc = "loop"

WrNext == WrSpawn \/ WrJoin \/ WrOpen \/ WrClose \/ WrReturn

SpecWriters == WrInit /\ [][WrNext]_vars

\* ------------------------------------------------------------- the claims
Submitted == BagCardinality(tasks)
AllOf(ts, states) == \A t \in DOMAIN ts : t.st \in states

\* C1: once is_canceling is true, cmd_depot_download submits no further task:
\* no step taken with the flag set adds a greenlet to the pool.
C1_NoSpawnAfterSignal ==
    [][is_canceling => BagCardinality(tasks') <= BagCardinality(tasks)]_vars

\* cmd_depot_download returns: the step that runs its finally clause
CddReturns == pc = "cdd_finally" /\ pc' = "rsd_return"

\* C2: if cancellation was requested before cmd_depot_download returns, the
\* value it returns is 1, never 0.  Stated for the case the claim names, a
\* cancellation that cut submitted tasks short: when the function returns with
\* is_canceling set and a submitted task that did not finish, it returns 1.
C2_CancelledReturnsOne ==
    [][(CddReturns /\ is_canceling /\ ~AllOf(tasks, {"done"})) => cdd_ret' = "1"]_vars

\* C3: with no non-directory entry in any manifest, cmd_depot_download submits
\* nothing and returns 1 (a value, not an exception).
C3_NoFilesReturnsOne ==
    (cdd_ret # "none" /\ total_files = 0) => (cdd_ret = "1" /\ Submitted = 0)

\* C4 as claimed: whenever cmd_depot_download has ended and cancellation was
\* never requested, it has returned 0.
C4_CompletedWithoutCancel ==
    (cdd_ret # "none" /\ ~is_canceling) => cdd_ret = "0"

\* C4, amended: when the counting phase found a file and cancellation is never
\* requested, cmd_depot_download eventually returns 0, and when it has returned
\* 0 every file entry was submitted and every submitted task has finished.
C4_CompletedWhenFilesFound ==
    /\ (pc = "cdd_setup") ~> (cdd_ret = "0" \/ is_canceling)
    /\ []((cdd_ret = "0" /\ ~is_canceling)
            => (Submitted = total_files /\ AllOf(tasks, {"done"})))

\* a run of seven files has been completed without a cancellation
C4_Witness ==
    /\ cdd_ret = "0"
    /\ ~is_canceling
    /\ Submitted > PoolSize
    /\ AllOf(tasks, {"done"})

\* C5: never more than 6 greenlets of the pool are alive, running ones
\* included, and tasks.spawn adds one only while fewer than 6 are: on a full
\* pool the main greenlet stays blocked in spawn until one has ended.
C5_BoundedPool ==
    /\ [](PoolCount <= PoolSize)
    /\ [][Submitted' > Submitted => PoolCount < PoolSize]_vars
    /\ []((pc = "cdd_spawn" /\ cur = "hub" /\ PoolCount = PoolSize) => ~ENABLED HubWakeSpawn)

\* six reconstructions are in flight and the seventh submission is blocked
C5_Witness ==
    /\ pc = "cdd_spawn"
    /\ cur = "hub"
    /\ SumOver({t \in DOMAIN tasks : t.st = "running"}, tasks) = PoolSize

\* a SIGINT is delivered
Interrupt == interrupts' = interrupts + 1

\* C6: the first SIGINT sets is_canceling, schedules a kill for every greenlet
\* of the pool and does nothing else: the process lives on where it was and
\* nothing is printed.  A SIGINT with is_canceling set ends the process with
\* status 1 there and then, temp directory not cleaned, and no step of the
\* program follows the exit.
C6_TwoStageCancel ==
    /\ [][(Interrupt /\ ~is_canceling)
            => /\ is_canceling'
               /\ ~exited'
               /\ global_tasks = "pool" => \A t \in InPool(tasks') : t.dying
               /\ BagCardinality(tasks') = BagCardinality(tasks)
               /\ UNCHANGED <<pc, cur, printed, temp_cleaned, should_cancel,
                              cancel_monitor, cdd_ret, rsd_ret>>]_vars
    /\ [][(Interrupt /\ is_canceling)
            => /\ exited'
               /\ exit_status' = 1
               /\ UNCHANGED <<pc, cur, temp_cleaned, tasks>>]_vars
    /\ [][~exited]_vars

\* a second SIGINT has ended the process in the middle of a download
C6_Witness ==
    /\ exited
    /\ exit_status = 1
    /\ interrupts = 2
    /\ ~temp_cleaned
    /\ PoolCount > 0

\* the messages that tell the user of a cancellation
CancelMessages ==
    {"Download cancellation requested. Cleaning up...",
     "Download canceled during manifest preparation.",
     "Download canceled by user."}

\* a file task that runs, or can still start, with no kill scheduled for it
Working(ts) == \E t \in InPool(ts) : ~t.dying

\* C7: at the moment a cancellation message is printed, by the monitor or by
\* main, no file task is running or can still start.
C7_MessageAfterStop ==
    [][(printed' \cap CancelMessages) # (printed \cap CancelMessages)
         => ~Working(tasks)]_vars

\* greenlets of bag ts in one of the states
CountIn(ts, states) == SumOver({t \in DOMAIN ts : t.st \in states}, ts)
\* greenlets of bag ts suspended in the fetch of chunk k
Fetching(ts, k) == SumOver({t \in DOMAIN ts : t.st = "running" /\ t.chunk = k}, ts)

\* a greenlet that was inside a fetch is, after the step, neither inside a
\* fetch nor finished: its fetch was cut short
FetchInterrupted ==
    CountIn(tasks', {"running", "done"}) < CountIn(tasks, {"running", "done"})

\* a greenlet entered the fetch of some chunk in the step
FetchStarted == \E k \in 1..ChunksPerFile : Fetching(tasks', k) > Fetching(tasks, k)

\* C8: after the first SIGINT no chunk fetch in flight is interrupted and no
\* chunk fetch starts.
C8_FetchesAfterSignal ==
    [][is_canceling => (~FetchInterrupted /\ ~FetchStarted)]_vars

\* the bytes of a file hash right for every chunk of the list, each at its
\* offset
Matches(data) ==
    \A i \in DOMAIN chunks :
        LET c == chunks[i]
        IN  /\ c.offset + c.cb_original <= Len(data)
            /\ sha1_hash(SubSeq(data, c.offset + 1, c.offset + c.cb_original)) = c.sha

\* C9: download_to with verify on a file of the right size whose bytes match
\* every chunk's hash calls get_chunk not once and leaves the file as it was.
C9_VerifiedFileUntouched ==
    (dpc = "closed" /\ verify /\ Len(disk0.data) = size /\ Matches(disk0.data))
        => (ncalls = 0 /\ disk = disk0)

\* the destination root, and the paths at or below it
Root == abspath(Target)
Inside(path) ==
    \/ path = Root
    \/ /\ Len(path) > Len(Root)
       /\ SubSeq(path, 1, Len(Root) + 1) = Root \o <<"/">>

\* C10: whatever the entry's path, the file download_to opens is inside the
\* destination root.
C10_TargetInsideRoot ==
    ppc = "done" => Inside(filepath)

\* the non-directory entries of a manifest
FilesOf(m) == Cardinality({i \in DOMAIN m : m[i].is_file})

\* C11: directory entries are neither counted nor downloaded.  When
\* cmd_depot_download returns from a manifest with a file entry and no
\* cancellation was requested, it returns 0, total_files is the number of
\* non-directory entries, that many tasks were submitted and all have
\* finished, and the 'Files' bar, when there is one, stands at that number.
C11_DirectoriesExcluded ==
    (pc = "rsd_return" /\ ~is_canceling /\ FilesOf(manifests[1]) > 0)
        => /\ cdd_ret = "0"
           /\ total_files = FilesOf(manifests[1])
           /\ Submitted = FilesOf(manifests[1])
           /\ AllOf(tasks, {"done"})
           /\ pbar2.on => pbar2.n = FilesOf(manifests[1])

\* the run of one file and one directory placeholder has returned, with bars
C11_Witness ==
    /\ pc = "rsd_return"
    /\ ~is_canceling
    /\ manifests[1] = <<FileEntry, DirEntry>>
    /\ cdd_ret = "0"
    /\ Submitted = 1
    /\ pbar2.on
    /\ pbar2.n = 1

\* the files whose reconstruction has finished
Finished == SumOver({t \in DOMAIN tasks : t.st = "done"}, tasks)

\* C12: the 'Files' bar never stands above the number of file reconstructions
\* that have finished.
C12_FilesCounterCountsCompleted ==
    pbar2.n <= Finished

\* the bytes the file tasks have verified or written so far
RECURSIVE BytesOf(_)
BytesOf(S) ==
    IF S = {} THEN 0
    ELSE LET t == CHOOSE x \in S : TRUE
         IN  tasks[t] * Processed(t) * ChunkBytes + BytesOf(S \ {t})

\* where cmd_depot_download stands between making its bars and returning
BarInUse ==
    {"cdd_manifest", "cdd_file", "cdd_spawn", "cdd_update", "cdd_join",
     "cdd_finally", "rsd_return"}

\* C13: while the 'Downloading' bar is not cancelled its counter is the sum of
\* the original lengths of the chunks verified or written so far by all file
\* tasks; the counter never exceeds the counted total size, and it stands at
\* the total size when the run has completed (returned 0, no cancellation).
\* The bar is that of the cmd_depot_download call in progress.
C13_BytesCounted ==
    (pbar.on /\ pc \in BarInUse) =>
        /\ ~pbar.cancelled => pbar.n = BytesOf(DOMAIN tasks)
        /\ pbar.n <= TotalSize(manifests)
        /\ (pc = "rsd_return" /\ ~is_canceling /\ cdd_ret = "0")
               => pbar.n = TotalSize(manifests)

\* two file tasks have reported chunks to a live bar: one has finished, one
\* is fetching a later chunk
C13_Witness ==
    /\ pbar.on
    /\ ~pbar.cancelled
    /\ \E t \in DOMAIN tasks : t.st = "done" /\ t.n > 0
    /\ \E t \in DOMAIN tasks : t.st = "running" /\ t.chunk > 1
    /\ pbar.n = BytesOf(DOMAIN tasks)
    /\ pbar.n >= (ChunksPerFile + 1) * ChunkBytes

\* C14: once a bar is cancelled, a second cancel() leaves it as it is, no
\* update, refresh or write changes its counter or writes to the terminal,
\* and the refresh loop ends at its next test.
C14_CancelIsFinal ==
    (refresher # "none" /\ pb._cancelled) =>
        /\ BarCancel(pb).b = pb
        /\ \A k \in 1..2, due \in BOOLEAN : BarUpdate(pb, k, due) = Quiet(pb)
        /\ BarRefresh(pb) = Quiet(pb)
        /\ BarWrite(pb) = Quiet(pb)
        /\ refresher = "spawned" => ~LoopEnters(pb)
        /\ refresher = "sleeping" => ~LoopGoesOn(pb)

\* the manifests of the index that hold the path
Holders(path) == {m \in DOMAIN ix_manifests : path \in ix_manifests[m]}

\* C15: _locate_file_mapping(path) returns the entry of the earliest manifest
\* of the list that contains the path.
C15_FirstMatchWins ==
    (ix_call # <<>> /\ ix_call[1] = "_locate_file_mapping" /\ ix_ret # None)
        => \A m \in Holders(ix_call[2]) : ix_ret[1] <= m

\* C16: a lookup of a path that was looked up before returns what the cache
\* holds for it and calls iter_files on no manifest.
C16_LookupMemoized ==
    [][\A path \in DOMAIN path_cache :
          ix_call' = <<"_locate_file_mapping", path>>
              => scans' = scans /\ ix_ret' = path_cache[path]]_vars

\* C17: a call of fetch_content_servers that finds a cached list written 299
\* seconds ago or later takes the servers from it, makes no external call and
\* leaves the file alone; a call that finds one written 301 seconds ago or
\* earlier makes exactly one external call and writes the list it got to the
\* file under the current time.
C17_CacheTTL ==
    [][(cs_calls' = cs_calls + 1 /\ cs_file # <<>>) =>
          /\ clock - cs_file.timestamp <= 299 =>
                /\ cs_fetches' = cs_fetches
                /\ cs_file' = cs_file
                /\ \A i \in DOMAIN cs_file.servers :
                       \E j \in DOMAIN servers' : servers'[j] = cs_file.servers[i]
          /\ clock - cs_file.timestamp >= 301 =>
                /\ cs_fetches' = cs_fetches + 1
                /\ cs_file' = [timestamp |-> clock, servers |-> servers']]_vars

\* one call reused the cached list, and the latest call found it 301 seconds
\* old, fetched once and wrote the file under the time of the call
C17_Witness ==
    /\ cs_calls = 2
    /\ cs_fetches = 1
    /\ cs_seen # <<>>
    /\ cs_seen.data # <<>>
    /\ cs_seen.at - cs_seen.data.timestamp = 301
    /\ cs_file = [timestamp |-> cs_seen.at, servers |-> servers]
    /\ clock = cs_seen.at

\* C18: with a custom depot-key file given, no key lookup and no save_cache
\* changes the default key store or the custom file.
C18_KeyFilesUntouched ==
    [][custom_depot_keys_file =>
          default_disk' = default_disk /\ custom_disk' = custom_disk]_vars

\* with a custom file given, save_cache found the keys in memory different
\* from the persisted ones and merged them: memory holds more than the files
C18_Witness ==
    /\ custom_depot_keys_file
    /\ key_call = "save_cache"
    /\ _depot_keys.set
    /\ _depot_keys.keys #
           GetCachedDepotKeys(custom_depot_keys_file, custom_disk, default_disk).keys
    /\ _depot_keys.keys # DefaultKeys(default_disk)

\* the custom file was given and does not load
Unloadable ==
    /\ custom_depot_keys_file
    /\ custom_disk.st \in {"absent", "unreadable", "malformed"}

\* C19: when the custom depot-key file given cannot be loaded, every call
\* that resolves the persisted keys gets those of the default store, and no
\* call raises.
C19_FallsBackToDefault ==
    (key_call # "" /\ Unloadable) =>
        /\ ~key_ret.raised
        /\ key_call = "get_cached_depot_keys" => key_ret.keys = DefaultKeys(default_disk)
        /\ GetCachedDepotKeys(custom_depot_keys_file, custom_disk, default_disk)
               = [keys |-> DefaultKeys(default_disk), raised |-> FALSE]

\* get_cached_depot_keys has returned the keys of a default store that holds
\* some, the custom file being malformed
C19_Witness ==
    /\ custom_depot_keys_file
    /\ custom_disk.st = "malformed"
    /\ key_call = "get_cached_depot_keys"
    /\ ~key_ret.raised
    /\ key_ret.keys = DefaultKeys(default_disk)
    /\ key_ret.keys # NoKeys

\* the cache file holds a manifest get_cached_manifest accepts
DiskHit == mf_disk.st = "ok" /\ mf_disk.manifest.gid > 0

\* C20: a call of get_manifest fetches from outside only when the key is
\* neither in the in-memory map nor in a usable cache file, and it reads the
\* cache file only when the key is not in the in-memory map.
C20_ResolutionOrder ==
    [][(mf_calls' = mf_calls + 1 /\ mf_call' = "get_manifest") =>
          /\ mf_fetches' # mf_fetches => (mf_mem = None /\ ~DiskHit)
          /\ mf_reads' # mf_reads => mf_mem = None]_vars

\* the cache file exists and get_cached_manifest cannot use it: it does not
\* parse, or it parses to a manifest whose gid is not positive
Stale == mf_disk.st = "corrupt" \/ (mf_disk.st = "ok" /\ mf_disk.manifest.gid <= 0)

\* C21: a call that finds the key absent from the in-memory map and the cache
\* file corrupt or empty treats the file as a miss: get_cached_manifest
\* returns None, leaves the map without the key and removes the file;
\* get_manifest goes on to the external fetch and the map and the file then
\* hold the manifest fetched, never what the stale file held.
C21_StaleFileIsMiss ==
    [][(mf_calls' = mf_calls + 1 /\ mf_mem = None /\ Stale) =>
          /\ mf_reads' = mf_reads + 1
          /\ mf_call' = "get_cached_manifest" =>
                /\ mf_ret' = None
                /\ mf_mem' = None
                /\ mf_disk' = CacheFile("absent", None)
                /\ mf_fetches' = mf_fetches
          /\ mf_call' = "get_manifest" =>
                /\ mf_fetches' = mf_fetches + 1
                /\ mf_mem' \in RealManifests
                /\ mf_ret' = mf_mem'
                /\ mf_disk' = CacheFile("ok", mf_mem')]_vars

\* get_cached_manifest read a cache file, returned None and left no file
C21_Witness ==
    /\ mf_call = "get_cached_manifest"
    /\ mf_reads = 1
    /\ mf_ret = None
    /\ mf_mem = None
    /\ mf_disk.st = "absent"

\* C22: after a call that returned a manifest, the manifest is not left with
\* encrypted filenames while a key for its depot is known; and a manifest
\* held in memory with decrypted filenames is never replaced by one with
\* encrypted filenames.
C22_DecryptedAfterLoad ==
    [][(mf_calls' = mf_calls + 1 /\ mf_ret' # None) =>
          /\ ~(mf_ret'.enc /\ mf_haskey')
          /\ (mf_mem # None /\ ~mf_mem.enc) => ~mf_mem'.enc]_vars

\* get_data_local has returned, or main() has gone on from there
Parsed == gdl_pc \in {"returned", "download", "no_manifests", "canceled"}

\* the key the last addappid directive of ds that carries one gives depot d
KeyOf(ds, d) ==
    LET with == {i \in DOMAIN ds : ds[i].op = "addappid" /\ ds[i].depot = d /\ ds[i].arg # <<>>}
    IN  IF with = {} THEN <<>> ELSE ds[CHOOSE i \in with : \A j \in with : j <= i].arg

\* the value a dict holds for key k, <<>> when it holds none
Lookup(d, k) ==
    IF \E j \in DOMAIN d : d[j][1] = k
    THEN d[CHOOSE j \in DOMAIN d : d[j][1] = k][2]
    ELSE <<>>

IsSet(d) == d.op = "setManifestid"
IsListed(d) == <<d.depot, d.arg>> \in manifest_paths

\* C23: whatever the order and number of the directives of a descriptor,
\* the manifests collected are those of its setManifestid directives whose
\* file exists, in their order, and the key of a depot is that of the last
\* addappid directive that gives it one: an addappid changes the key of its
\* own depot and nothing else.
C23_DirectivesIndependent ==
    (Parsed /\ container.kind \in {"lua", "st"}) =>
        /\ gdl_err = ""
        /\ depot_keys_json.exists
        /\ \A d \in DepotIds : Lookup(depot_keys_json.content, d) = KeyOf(directives, d)
        /\ \A j \in DOMAIN depot_keys_json.content :
               depot_keys_json.content[j][1] \in DepotIds
        /\ LET sets == SelectSeq(SelectSeq(directives, IsSet), IsListed)
           IN  collected_depots = [i \in DOMAIN sets |-> <<sets[i].depot, sets[i].arg>>]

\* a descriptor gives depot 1 a key, assigns it a manifest, then gives it
\* another key: the manifest is collected and the second key kept
C23_Witness ==
    /\ Parsed
    /\ directives = <<Directive("addappid", <<"1">>, <<"a">>),
                      Directive("setManifestid", <<"1">>, <<"7", "8">>),
                      Directive("addappid", <<"1">>, <<"b", "0">>)>>
    /\ depot_keys_json.content = <<<<<<"1">>, <<"b", "0">>>>>>
    /\ collected_depots = <<<<<<"1">>, <<"7", "8">>>>>>

\* C24: an .st file built from a text (512 bytes of padding and the text,
\* compressed, XORed with the key byte derived from the header, behind the
\* 12-byte header) gives get_data_local the outcome the same text gives it
\* as a .lua file: the same depot keys, the same manifests, no error.
C24_RoundTrip ==
    (gdl_pc # "main" /\ container.kind = "st") =>
        /\ gdl_err = ""
        /\ [err |-> gdl_err, keys |-> depot_keys_json, ret |-> collected_depots]
               = GetDataLocal(File(TRUE, TextOf(directives, container.loose)),
                              NoSuchFile, manifest_paths)

\* an .st file gave a depot key and a manifest, and main() starts the download
C24_Witness ==
    /\ container.kind = "st"
    /\ gdl_pc = "download"
    /\ depot_keys_json.content # <<>>
    /\ Len(collected_depots) > 1

\* the header of the .st file says xorkey_raw = 0x12345678
Has12345678 ==
    /\ st_file.exists
    /\ Len(st_file.content) >= 4
    /\ SubSeq(st_file.content, 1, 4) = Raw12345678

\* C25 as stated: for xorkey_raw = 0x12345678 the key byte is 0xA0 (160).
C25_KeyByteA0 ==
    Has12345678 => XorKey(SubSeq(st_file.content, 1, 4)) = 160

\* C25: the key byte is the lowest byte of xorkey_raw XOR 0xFFFEA4C8; for
\* xorkey_raw = 0x12345678 it is 0xB0 (176), and an .st file whose payload
\* is XORed with 0xB0 behind that header decodes.
C25_KeyByteB0 ==
    Has12345678 =>
        /\ XorKey(SubSeq(st_file.content, 1, 4)) = 176
        /\ (gdl_pc # "main" /\ container.kind = "st") => gdl_err = ""

\* an .st file with xorkey_raw = 0x12345678 was decoded and gave a manifest
C25_Witness ==
    /\ Has12345678
    /\ container.kind = "st"
    /\ gdl_pc = "returned"
    /\ gdl_err = ""
    /\ collected_depots # <<>>

\* the descriptor is malformed: the header is short, the payload size stated
\* is not that of the payload, the payload does not decompress, or a
\* directive of the text is not one of the grammar
Malformed ==
    \/ container.kind \in {"short", "less", "more", "cut", "flip"}
    \/ /\ container.kind \in {"lua", "st"}
       /\ \E i \in DOMAIN directives : directives[i].op = "junk"

\* C26: decoding a malformed descriptor raises an error and main() starts no
\* download.
C26_MalformedAborts ==
    (gdl_pc # "main" /\ Malformed) => (gdl_err # "" /\ gdl_pc # "download")

\* the greenlets an exception ended
FailedCount(ts) == SumOver({t \in DOMAIN ts : t.st = "failed"}, ts)

\* C27: an exception in a file task ends that task alone: the step leaves
\* every other greenlet, the main greenlet and the cancellation flag as they
\* were; and in a run without cancellation cmd_depot_download still returns,
\* after every file entry was submitted and every task has finished or failed.
C27_ErrorsIsolated ==
    /\ [][FailedCount(tasks') > FailedCount(tasks) =>
             /\ \E t \in InPool(tasks) : tasks' = Moved(tasks, t, [t EXCEPT !.st = "failed"])
             /\ pc' = pc
             /\ should_cancel' = should_cancel
             /\ cancel_monitor' = cancel_monitor]_vars
    /\ (pc = "cdd_setup") ~> (cdd_ret # "none")
    /\ [](cdd_ret # "none" =>
            (Submitted = total_files /\ AllOf(tasks, {"done", "failed"})))

\* a task has failed while file entries are still to be submitted and a
\* sibling waits for a chunk
C27_Witness ==
    /\ FailedCount(tasks) > 0
    /\ Submitted < total_files
    /\ \E t \in DOMAIN tasks : t.st = "running"
    /\ pc = "cdd_spawn"

\* download_to passes from chunk ci to the next
ChunkPass == dpc = "loop" /\ ci' = ci + 1

\* the bytes download_to reads to verify chunk ci: cb_original bytes at the
\* cursor
BytesRead == Read(disk.data, fp, chunks[ci].cb_original)

\* C28: download_to passes every chunk once and calls get_chunk at most once
\* in a pass.  Without verification (verify false, or no file at the target
\* before the call) every chunk is fetched; with it, a chunk is fetched if
\* and only if the bytes read for it do not hash to its sha.
C28_FetchesWhatIsNeeded ==
    /\ [][ChunkPass =>
             ncalls' = IF verify /\ sha1_hash(BytesRead) = chunks[ci].sha
                       THEN ncalls ELSE ncalls + 1]_vars
    /\ [][ci' = ci \/ ci' = ci + 1]_vars
    /\ []((dpc # "start" /\ ~disk0.exists) => ~verify)
    /\ [](dpc = "closed" => ci = Len(chunks) + 1)
    /\ []((dpc = "closed" /\ ~verify) => ncalls = Len(chunks))

\* a verifying call found some chunks right on disk and fetched the others
C28_Witness ==
    /\ dpc = "closed"
    /\ verify
    /\ 0 < ncalls
    /\ ncalls < Len(chunks)

\* C29: the chunks of a file are passed one at a time in the order of
\* self.chunks, and when download_to goes on to the next chunk the one it
\* leaves was found right on disk, or its bytes are in the file, ending at
\* the cursor.
C29_ChunksInOrder ==
    /\ [][ChunkPass =>
             \/ verify /\ sha1_hash(BytesRead) = chunks[ci].sha /\ disk' = disk
             \/ /\ fp' >= chunks[ci].cb_original
                /\ Read(disk'.data, fp' - chunks[ci].cb_original, chunks[ci].cb_original)
                       = get_chunk(chunks[ci].sha)]_vars
    /\ [][ci' # ci => (ci' = ci + 1 /\ ci' <= Len(chunks) + 1)]_vars
    /\ [](dpc = "closed" => ci = Len(chunks) + 1)

\* the third chunk is next, a chunk before it was fetched and written and
\* another found right on disk
C29_Witness ==
    /\ dpc = "loop"
    /\ ci = 3
    /\ ncalls = 1
    /\ disk # disk0

\* C30: a fetched chunk is written at its own offset, and a verification
\* read is taken at the chunk's offset, whatever the chunk list.
C30_ChunkAtItsOffset ==
    [][ChunkPass =>
          /\ verify => fp = chunks[ci].offset
          /\ ncalls' # ncalls =>
                disk'.data = Write(disk.data, chunks[ci].offset, get_chunk(chunks[ci].sha))]_vars

\* the chunk list is in ascending offset order (the lists of the model have
\* no gaps: their chunks cut the whole content)
SortedChunks == \A i \in 1..(Len(chunks) - 1) : chunks[i].offset < chunks[i + 1].offset

\* C31: for a chunk list in offset order, download_to with verify over an
\* existing file of any content and length leaves a file of exactly the
\* entry's size in which every chunk's range hashes to the chunk's sha.
C31_SelfHealing ==
    (dpc = "closed" /\ verify /\ SortedChunks) =>
        (Len(disk.data) = size /\ Matches(disk.data))

\* a file of the wrong length, some of whose chunks were right, was healed
\* with fewer fetches than it has chunks
C31_Witness ==
    /\ dpc = "closed"
    /\ verify
    /\ SortedChunks
    /\ Len(disk0.data) # size
    /\ 0 < ncalls
    /\ ncalls < Len(chunks)
    /\ Matches(disk.data)

\* C32: no two greenlets of one cmd_depot_download hold the same target file
\* open at the same time.
C32_SingleWriter ==
    \A i, j \in DOMAIN wr_st :
        (i # j /\ wr_st[i] = "open" /\ wr_st[j] = "open") =>
            TargetPath(Flatten(wr_manifests)[i], wr_no_dirs)
                # TargetPath(Flatten(wr_manifests)[j], wr_no_dirs)

\* the file entries of the manifests that come before entry e of manifest m
FilesBefore(ms, m, e) ==
    CountFiles(SubSeq(ms, 1, m - 1)) + FilesOf(SubSeq(ms[m], 1, e - 1))

\* C33: while no interrupt has been delivered, a task is submitted only by
\* the spawn of the loop, only for a file entry, one at a time and after
\* exactly the file entries that come before it in manifest order and entry
\* order; when cmd_depot_download returns, as many tasks were submitted as
\* total_files says.
C33_OneTaskPerFile ==
    [][interrupts' = 0 =>
        /\ (pc = "cdd_spawn" /\ pc' = "cdd_update") =>
                /\ manifests[mi][ei].is_file
                /\ Submitted = FilesBefore(manifests, mi, ei)
                /\ Submitted' = Submitted + 1
        /\ (pc # "cdd_start" /\ ~(pc = "cdd_spawn" /\ pc' = "cdd_update")) =>
                Submitted' = Submitted
        /\ CddReturns => Submitted = total_files]_vars

\* without an interrupt, the file entry behind the directory placeholder has
\* been submitted as the second task of a manifest of three files
C33_Witness ==
    /\ interrupts = 0
    /\ pc = "cdd_update"
    /\ manifests[1] = ManifestOf(3, TRUE)
    /\ ei = 3
    /\ Submitted = 2
    /\ total_files = 3

\* a greenlet of the pool that has ended, or was cancelled before it started
Ended(t) == t.st \in {"done", "killed", "failed"} \/ (t.st = "pending" /\ t.dying)

\* C34: when cmd_depot_download returns a value with the cancellation flag set
\* by a first interrupt, every file task has ended or will never start, the
\* monitor greenlet has finished, and each bar there is has been cancelled.
C34_StoppedAtReturn ==
    [][(CddReturns /\ is_canceling /\ ~exited /\ cdd_ret' \in {"0", "1"}) =>
        /\ \A t \in DOMAIN tasks' : Ended(t)
        /\ cancel_monitor' = "finished"
        /\ pbar'.on => pbar'.cancelled
        /\ pbar2'.on => pbar2'.cancelled]_vars

\* C35: whatever accesses of depot_keys a client has served, the property has
\* loaded the backing file at most once.
C35_LoadedOnce == key_loads <= 1

\* C36: a call of fetch_content_servers that finds the cached list fresh
\* leaves self.servers equal to the cached list.
C36_CachedLoadIdempotent ==
    [][(cs_calls' = cs_calls + 1 /\ Fresh(cs_file, clock)) =>
          servers' = cs_file.servers]_vars

\* C37: as long as no interrupt has been delivered, is_canceling is false and
\* the run has not reported a cancellation by the user.
C37_FlagOnlyOnInterrupt ==
    interrupts = 0 =>
        /\ ~is_canceling
        /\ "Download canceled by user." \notin printed

\* a run without interrupt has failed: the download of its manifest, which
\* holds no file, was reported as an error and main() says so
C37_Witness ==
    /\ interrupts = 0
    /\ ~is_canceling
    /\ pc = "main_finally"
    /\ Len(manifestFiles) = 1
    /\ CountFiles(manifestFiles) = 0
    /\ rsd_ret = "False"
    /\ "Failed to process manifests" \in printed

\* depotdownloadermod_add stands at a manifest boundary: before a manifest
\* (line 354) or behind one (line 362)
AtBoundary ==
    (pc = "add_loop" /\ midx <= Len(manifestFiles)) \/ pc = "add_after"

\* C38: is_canceling, once true, stays true; when depotdownloadermod_add reads
\* it true at a manifest boundary it returns False; cmd_depot_download is
\* entered only with the flag false, and never after depotdownloadermod_add
\* has returned.
C38_FlagMonotonic ==
    [][/\ is_canceling => is_canceling'
       /\ (is_canceling /\ AtBoundary /\ pc' # pc) =>
              (pc' = "main_after" /\ ~success')
       /\ (pc' = "cdd_start" /\ pc # "cdd_start") => ~is_canceling
       /\ pc \in {"main_after", "main_finally", "exit"} =>
              pc' \in {"main_after", "main_finally", "exit"}]_vars

\* the flag was read behind the first of two manifests, whose download had
\* run: the function has returned False and the second manifest was not begun
C38_Witness ==
    /\ is_canceling
    /\ pc = "main_after"
    /\ Len(manifestFiles) = 2
    /\ midx = 1
    /\ cdd_ret \in {"0", "1"}
    /\ ~success

\* C39: run_steamctl_download returns True or False, whatever the flag was
\* when it was entered.
C39_ReturnsBoolean == rsd_ret \in {"none", "True", "False"}

====
